---- MODULE Spec2Model ----
(***************************************************************************)
(* Agent execution engine of alingse/mgxdemo (backend/app).                *)
(*                                                                         *)
(* One session is modelled.  The state is the Message table, the           *)
(* AgentExecutionStep table, the process-wide _event_queues dict, the      *)
(* locals of the background task run_agent/_run_agent_loop and the SSE     *)
(* connections (stream_execution_steps.event_generator).                   *)
(*                                                                         *)
(* The program runs on one asyncio event loop, so an action is the code    *)
(* between two suspension points (the await on the provider stream, the    *)
(* await on AgentSandbox.execute_tool, the await on queue.get).            *)
(*                                                                         *)
(* Text (content, reasoning) is a sequence of tokens, concatenation of     *)
(* strings is concatenation of sequences.  A Python dict is a record, a    *)
(* key that may be absent is tested with \in DOMAIN.  A list that may be   *)
(* None is the empty sequence where the code only tests its truthiness.    *)
(***************************************************************************)
EXTENDS Naturals, Sequences, FiniteSets, TLC

(* ------------------------------ bounds -------------------------------- *)
\* inputs of one run, over all turns: one unit for each provider call, each
\* tool call the provider issues, each reasoning delta it streams, each SSE
\* connection opened and each heartbeat timeout
MaxWork == 4
\* turns posted in one run
MaxTurns == 2
\* iterations of one turn explored in Spec; SpecIterations runs the loop to
\* _MAX_AGENT_ITERATIONS
MaxIter == 2
\* put/get operations applied to a queue in SpecQueue
MaxQueueOps == 4
\* length of the message lists and greatest max_history given to
\* _apply_truncation_strategy in SpecTruncation
MaxMessages == 4
MaxHistory == 2
\* length of the short user inputs posted in SpecUserInput
MaxInputLength == 3
\* chunks of a provider stream in SpecStreaming
MaxChunks == 4
\* items of one todos argument in SpecTodoWrite
MaxTodos == 2
\* file operations of one run of SpecSandbox
MaxSandboxOps == 2

(* ------------------------- program constants -------------------------- *)
_MAX_AGENT_ITERATIONS == 500
QUEUE_MAXSIZE == 1000
max_history_messages == 20
max_user_input_length == 1000
max_sandbox_size_mb == 100
max_file_size_mb == 1
TOOL_RESULT_LIMIT == 1000

session_id == "s1"

Min(a, b) == IF a <= b THEN a ELSE b

(* ------------------------------ values -------------------------------- *)
\* The program's Chinese message literals are written in English here.
\* Python None for a text value
None == <<"None">>
\* Python None for a column or variable holding a JSON document
JsonNull == [null |-> TRUE]

Truthy(text) == text # None /\ text # <<>>
\* x or ""
OrEmpty(text) == IF Truthy(text) THEN text ELSE <<>>

Get(d, k, default) == IF k \in DOMAIN d THEN d[k] ELSE default

\* the tool registry of AgentSandbox._init_tools
RegisteredTools == {"bash", "list", "read", "write", "todo", "check"}

\* argument strings a provider may send for a tool call
ArgCompact == "{\"filename\":\"a.txt\",\"content\":\"x\"}"
ArgSpaced == "{\"filename\": \"a.txt\", \"content\": \"x\"}"
ArgTruncated == "{\"filename\":"
ArgTodoAdd == "{\"action\":\"add\",\"task\":\"t\"}"

\* the object both well-formed strings denote
ArgObject == [filename |-> "a.txt", content |-> "x"]
\* the object ArgTodoAdd denotes
ArgTodoObject == [action |-> "add", task |-> "t"]
\* a string that is no JSON document
JSONDecodeError == [error |-> "JSONDecodeError"]

\* json.loads of a provider string: ArgCompact and ArgSpaced denote the same
\* object, ArgTruncated raises
json_loads_arguments(s) ==
  IF s \in {ArgCompact, ArgSpaced} THEN ArgObject
  ELSE IF s = ArgTodoAdd THEN ArgTodoObject
  ELSE JSONDecodeError

\* json.dumps(obj, ensure_ascii=False) of a parsed argument object: the
\* default separators ", " and ": "
json_dumps_arguments(obj) ==
  IF obj = ArgObject THEN ArgSpaced ELSE "{}"

\* json.dumps / json.loads of a value the program itself serialises: the text
\* is a document that denotes the value
json_dumps(v) == [json |-> v]
json_loads(doc) == doc.json
IsJsonText(x) == "json" \in DOMAIN x

\* the (name, arguments) pairs the modelled provider chooses tool calls from
CallMenu ==
  { [name |-> "write", arguments |-> ArgCompact],
    [name |-> "write", arguments |-> ArgTruncated],
    [name |-> "todo_write", arguments |-> ArgSpaced] }

VARIABLES
  messages,        \* table messages of the session, in insertion order
  steps,           \* table agent_execution_steps, in insertion order
  _event_queues,   \* dict session_id -> asyncio.Queue (its items, head first)
  turn,            \* locals of create_message.run_agent / _run_agent_loop, and the
                   \* history of the turn: how it ended, whether the fallback failed
  conns,           \* SSE connections: event_generator's state and the event it yielded last
  emitted,         \* history: every event that was put on the queue, in order
  sandbox,         \* the files under sandbox_base_dir and outside of it, the
                   \* write_file calls between their checks and their write, and
                   \* the operation that ended last
  todo_snapshots,  \* table todo_snapshots
  budget           \* history: the inputs consumed, the tool calls issued and the
                   \* arguments string the provider sent for each call id;
                   \* clock: the second the next block of the task runs in;
                   \* max_iter: the iterations of a turn this run explores;
                   \* user_content: the content this run posts;
                   \* settings: the Settings of this run

vars == <<messages, steps, _event_queues, turn, conns, emitted, budget,
          sandbox, todo_snapshots>>

\* the runs that leave the filesystem aside
NoSandbox == [disk |-> <<>>, pending |-> <<>>, last |-> [op |-> ""]]

\* range(1, _MAX_AGENT_ITERATIONS + 1), cut at the bound the run explores
IterationLimit == Min(_MAX_AGENT_ITERATIONS, budget.max_iter)

(* --------------------------- event queue ------------------------------ *)
\* get_event_queue: create on first use
get_event_queue(queues, sid) ==
  IF sid \in DOMAIN queues
    THEN queues
    ELSE [s \in (DOMAIN queues) \cup {sid} |->
            IF s = sid THEN <<>> ELSE queues[s]]

\* asyncio.Queue.put_nowait on a queue of maxsize QUEUE_MAXSIZE
QueueFull(queue) == Len(queue) >= QUEUE_MAXSIZE

\* faulty variant: a full queue refuses the new event
_emit_event_nonblocking_keep_oldest(queue, event) ==
  IF ~QueueFull(queue) THEN Append(queue, event) ELSE queue

\* _emit_event_nonblocking: put_nowait; on QueueFull get_nowait then put_nowait
_emit_event_nonblocking(queue, event) ==
  IF ~QueueFull(queue)
    THEN Append(queue, event)
    ELSE Append(Tail(queue), event)

\* The world a synchronous block works on: the tables, the queues, the history.
World == [messages |-> messages, steps |-> steps, queues |-> _event_queues,
          emitted |-> emitted, now |-> budget.clock]

\* queue = get_event_queue(session_id); _emit_event_nonblocking(queue, event)
Emit(W, event) ==
  LET qs == get_event_queue(W.queues, session_id)
      ev == [event EXCEPT !.seq = Len(W.emitted) + 1]
  IN [W EXCEPT !.queues = [qs EXCEPT ![session_id] =
                              _emit_event_nonblocking(qs[session_id], ev)],
               !.emitted = Append(W.emitted, ev)]

(* ------------------------------ steps --------------------------------- *)
\* AgentExecutionStep.to_dict
to_dict(step) ==
  [id |-> step.id, message_id |-> step.message_id, iteration |-> step.iteration,
   status |-> step.status, reasoning_content |-> step.reasoning_content,
   tool_name |-> step.tool_name,
   tool_arguments |-> IF step.tool_arguments = JsonNull THEN JsonNull
                      ELSE json_loads(step.tool_arguments),
   tool_result |-> step.tool_result, tool_error |-> step.tool_error,
   progress |-> step.progress]

EventTypeOf(status) ==
  IF status \in {"thinking", "tool_calling", "tool_executing",
                 "tool_completed", "completed", "failed"}
    THEN status ELSE "step"

\* the row _save_execution_step adds: db.add(step); db.commit(); db.refresh(step)
NewStep(W, kw) ==
  [id |-> Len(W.steps) + 1,
   message_id |-> kw.message_id,
   iteration |-> kw.iteration,
   status |-> kw.status,
   reasoning_content |-> Get(kw, "reasoning_content", None),
   tool_name |-> Get(kw, "tool_name", ""),
   tool_arguments |-> IF "tool_arguments" \in DOMAIN kw
                        THEN json_dumps(kw.tool_arguments) ELSE JsonNull,
   tool_call_id |-> Get(kw, "tool_call_id", 0),
   tool_result |-> Get(kw, "tool_result", None),
   tool_error |-> Get(kw, "tool_error", None),
   progress |-> kw.progress,
   \* server_default=func.now(): CURRENT_TIMESTAMP, in whole seconds
   created_at |-> W.now]

StepEvent(step) ==
  [event |-> EventTypeOf(step.status), step_id |-> step.id,
   data |-> to_dict(step), seq |-> 0]

\* faulty variant: the tool_executing event is put for a row that is not committed
_save_execution_step_event_only(W, kw) ==
  IF kw.status = "tool_executing"
    THEN Emit(W, StepEvent(NewStep(W, kw)))
    ELSE Emit([W EXCEPT !.steps = Append(W.steps, NewStep(W, kw))],
              StepEvent(NewStep(W, kw)))

\* _save_execution_step: the row is committed, then the event is put
_save_execution_step(W, kw) ==
  LET step == NewStep(W, kw)
      W1 == [W EXCEPT !.steps = Append(W.steps, step)]
  IN Emit(W1, StepEvent(step))

(* --------------------------- prompt assembler ------------------------- *)
\* message_create.content of the runs that do not vary it
UserContent == <<"make a todo list">>

\* get_settings(): the defaults of Settings
get_settings ==
  [max_user_input_length |-> max_user_input_length,
   truncation_warning_message |-> <<"...(truncated)">>]

_SYSTEM_PROMPT == <<"SYSTEM_PROMPT">>

\* faulty variant: the cut without the warning
_truncate_user_input_without_warning(content, max_length, warning_message) ==
  IF Len(content) <= max_length
    THEN content
    ELSE SubSeq(content, 1, max_length)

\* _truncate_user_input
_truncate_user_input(content, max_length, warning_message) ==
  IF Len(content) <= max_length
    THEN content
    ELSE SubSeq(content, 1, max_length) \o warning_message

\* _convert_tool_calls_to_api_format: None (the empty list here) for a falsy
\* column; an item that has "function" is kept as it is, an item in the
\* {id, name, arguments} shape gets its arguments string rebuilt by json.dumps
\* faulty variant: the arguments string is rebuilt from the parsed object
ConvertItem_reserialised(item) ==
  IF "id" \notin DOMAIN item THEN <<>>
  ELSE IF "function" \in DOMAIN item
    THEN << [item EXCEPT !.function.arguments =
                json_dumps_arguments(json_loads_arguments(@))] >>
  ELSE <<>>

ConvertItem(item) ==
  IF "id" \notin DOMAIN item THEN <<>>
  ELSE IF "function" \in DOMAIN item THEN <<item>>
  ELSE IF "name" \in DOMAIN item /\ "arguments" \in DOMAIN item
    THEN << [id |-> item.id, type |-> "function",
             function |-> [name |-> item.name,
                           arguments |-> json_dumps_arguments(item.arguments)]] >>
  ELSE <<>>

RECURSIVE ConvertItems(_)
ConvertItems(items) ==
  IF items = <<>> THEN <<>>
  ELSE ConvertItem(Head(items)) \o ConvertItems(Tail(items))

_convert_tool_calls_to_api_format(tool_calls_data) ==
  IF tool_calls_data = JsonNull THEN <<>>
  ELSE LET parsed == IF IsJsonText(tool_calls_data)
                       THEN json_loads(tool_calls_data) ELSE tool_calls_data
       IN ConvertItems(parsed)

\* _build_contextual_user_prompt: the context sections, then the header
\* of the user message, then the user's text (the sections on sandbox files, todos
\* and system notes are empty for a session that has none)
_build_contextual_user_prompt(user_message) ==
  <<"## user message">> \o user_message

RECURSIVE Pick(_, _, _)
\* the subsequence of s at the indices in I, from index i on
Pick(s, I, i) ==
  IF i > Len(s) THEN <<>>
  ELSE (IF i \in I THEN <<s[i]>> ELSE <<>>) \o Pick(s, I, i + 1)

IsAssistant(m) == m.role = "assistant"

\* faulty variant: every user message is kept
_apply_truncation_strategy_all_users(msgs, max_history) ==
  LET assistant_messages == SelectSeq(msgs, IsAssistant)
      n == Len(assistant_messages)
      recent_assistants ==
        IF max_history = 0 \/ max_history >= n THEN assistant_messages
        ELSE SubSeq(assistant_messages, n - max_history + 1, n)
      tool_call_ids ==
        UNION { { recent_assistants[j].tool_calls[k].id :
                    k \in 1..Len(recent_assistants[j].tool_calls) } :
                j \in { j \in 1..Len(recent_assistants) :
                          "tool_calls" \in DOMAIN recent_assistants[j] } }
      kept == { i \in 1..Len(msgs) :
                  \/ msgs[i].role \in {"system", "user"}
                  \/ /\ msgs[i].role = "assistant"
                     /\ \E j \in 1..Len(recent_assistants) :
                          recent_assistants[j] = msgs[i]
                  \/ /\ msgs[i].role = "tool"
                     /\ msgs[i].tool_call_id \in tool_call_ids }
  IN Pick(msgs, kept, 1)

\* faulty variant: the tool_call_ids are collected from every assistant
\* message, not from the recent ones
_apply_truncation_strategy_all_ids(msgs, max_history) ==
  LET assistant_messages == SelectSeq(msgs, IsAssistant)
      n == Len(assistant_messages)
      recent_assistants ==
        IF max_history = 0 \/ max_history >= n THEN assistant_messages
        ELSE SubSeq(assistant_messages, n - max_history + 1, n)
      tool_call_ids ==
        UNION { { assistant_messages[j].tool_calls[k].id :
                    k \in 1..Len(assistant_messages[j].tool_calls) } :
                j \in { j \in 1..Len(assistant_messages) :
                          "tool_calls" \in DOMAIN assistant_messages[j] } }
      users == { i \in 1..Len(msgs) : msgs[i].role = "user" }
      kept == { i \in 1..Len(msgs) :
                  \/ msgs[i].role = "system"
                  \/ msgs[i].role = "user" /\ \A j \in users : i <= j
                  \/ /\ msgs[i].role = "assistant"
                     /\ \E j \in 1..Len(recent_assistants) :
                          recent_assistants[j] = msgs[i]
                  \/ /\ msgs[i].role = "tool"
                     /\ msgs[i].tool_call_id \in tool_call_ids }
  IN Pick(msgs, kept, 1)

\* _apply_truncation_strategy
_apply_truncation_strategy(msgs, max_history) ==
  LET assistant_messages == SelectSeq(msgs, IsAssistant)
      n == Len(assistant_messages)
      \* assistant_messages[-max_history:]
      recent_assistants ==
        IF max_history = 0 \/ max_history >= n THEN assistant_messages
        ELSE SubSeq(assistant_messages, n - max_history + 1, n)
      tool_call_ids ==
        UNION { { recent_assistants[j].tool_calls[k].id :
                    k \in 1..Len(recent_assistants[j].tool_calls) } :
                j \in { j \in 1..Len(recent_assistants) :
                          "tool_calls" \in DOMAIN recent_assistants[j] } }
      users == { i \in 1..Len(msgs) : msgs[i].role = "user" }
      kept == { i \in 1..Len(msgs) :
                  \/ msgs[i].role = "system"
                  \/ msgs[i].role = "user" /\ \A j \in users : i <= j
                  \/ /\ msgs[i].role = "assistant"
                     /\ \E j \in 1..Len(recent_assistants) :
                          recent_assistants[j] = msgs[i]
                  \/ /\ msgs[i].role = "tool"
                     /\ msgs[i].tool_call_id \in tool_call_ids }
  IN Pick(msgs, kept, 1)

\* the dict _prepare_ai_messages builds for one stored row; an assistant row
\* without tool_calls matches no branch and is not added
AiMessageOf(msg) ==
  IF msg.role = "user"
    THEN << [role |-> "user",
             content |-> _build_contextual_user_prompt(msg.content)] >>
  ELSE IF msg.role = "assistant" /\ msg.tool_calls # JsonNull
    THEN << [role |-> "assistant", content |-> msg.content,
             tool_calls |-> _convert_tool_calls_to_api_format(msg.tool_calls),
             reasoning_content |-> OrEmpty(msg.reasoning_content)] >>
  ELSE IF msg.role = "tool"
    THEN << [role |-> "tool", content |-> msg.content,
             tool_call_id |-> msg.tool_call_id] >>
  ELSE IF msg.role = "system"
    THEN << [role |-> "system", content |-> msg.content] >>
  ELSE <<>>

RECURSIVE AllMessages(_)
AllMessages(rows) ==
  IF rows = <<>> THEN <<>>
  ELSE AiMessageOf(Head(rows)) \o AllMessages(Tail(rows))

\* _prepare_ai_messages with settings.enable_message_truncation = True
_prepare_ai_messages(rows) ==
  << [role |-> "system", content |-> _SYSTEM_PROMPT] >>
    \o _apply_truncation_strategy(AllMessages(rows), max_history_messages)

\* a row of table messages
MessageRow(id, role, content, tool_call_id) ==
  [id |-> id, role |-> role, content |-> content, reasoning_content |-> None,
   tool_calls |-> JsonNull, tool_call_id |-> tool_call_id]

AddMessage(W, role, content, tool_call_id) ==
  [W EXCEPT !.messages =
     Append(W.messages, MessageRow(Len(W.messages) + 1, role, content, tool_call_id))]

(* ------------------------------ provider ------------------------------ *)
\* the tool calls of a response, ids assigned by the provider (fresh in a run)
ToolCall(id, kind) ==
  [id |-> id, type |-> "function",
   function |-> [name |-> kind.name, arguments |-> kind.arguments]]

\* the lists of k tool calls with ids first, first + 1, ...
RECURSIVE CallLists(_, _)
CallLists(first, k) ==
  IF k = 0 THEN { <<>> }
  ELSE { <<ToolCall(first, kind)>> \o rest :
           kind \in CallMenu, rest \in CallLists(first + 1, k - 1) }

\* DeepSeekService.chat_with_tools: the reply, or, when the API call raises,
\* the error text as content with no tool calls and no reasoning
chat_with_tools(reply) ==
  IF reply.raised
    THEN [content |-> <<"AI service call failed: ", "e">>, tool_calls |-> <<>>,
          reasoning |-> None]
    ELSE [content |-> reply.content, tool_calls |-> reply.tool_calls,
          reasoning |-> reply.reasoning]

\* the done event chat_with_tools_streaming yields after its fallback
FallbackDoneEvent(reply) ==
  LET r == chat_with_tools(reply)
  IN [type |-> "done", content |-> r.content, tool_calls |-> r.tool_calls,
      reasoning_content |-> OrEmpty(r.reasoning)]

(* ------------------------------- tools -------------------------------- *)
\* AgentSandbox.execute_tool: an unknown name raises ValueError; arguments
\* that do not fit execute(**arguments) raise TypeError; WriteTool.execute
\* and TodoTool.execute themselves return a string in every case
execute_tool(tool_name, arguments) ==
  IF tool_name \notin RegisteredTools
    THEN [raised |-> TRUE, error |-> <<"unknown tool: ", tool_name>>]
  ELSE IF tool_name = "todo" /\ arguments = ArgTodoObject
    \* TodoTool._add_task
    THEN [raised |-> FALSE, result |-> <<"added task: ", arguments.task>>]
  ELSE IF arguments # ArgObject
    THEN [raised |-> TRUE, error |-> <<"TypeError">>]
  ELSE [raised |-> FALSE, result |-> <<"wrote file ", arguments.filename>>]

(* ----------------------------- agent loop ----------------------------- *)
\* A synchronous block works on X = [W: the world, t: the task's locals,
\* b: the budget history].

ThinkingProgress(i) == Min(10 + i * 5, 80)
ReasoningProgress(i) == Min(15 + i * 5, 85)
ToolCallingProgress(i) == Min(20 + i * 8, 90)
ToolExecutingProgress(i) == Min(25 + i * 8, 92)
ToolCompletedProgress(i) == Min(30 + i * 8, 95)

\* text[:n]
Prefix(text, n) == SubSeq(text, 1, Min(Len(text), n))

\* the dict json.loads fails over to: tool_arguments = {}
EmptyDict == [empty_dict |-> TRUE]

\* top of the for loop: the empty THINKING step, the locals reset, the call of
\* chat_with_tools_streaming
BeginIteration(X, i) ==
  LET W1 == _save_execution_step(X.W,
              [message_id |-> X.t.message_id, iteration |-> i,
               status |-> "thinking", progress |-> ThinkingProgress(i)])
  IN [W |-> W1,
      t |-> [X.t EXCEPT !.pc = "streaming", !.iteration = i,
                        !.step = Len(W1.steps),
                        !.accumulated_reasoning = <<>>,
                        !.accumulated_response = <<>>,
                        !.tool_calls = <<>>],
      b |-> [X.b EXCEPT !.work = @ + 1]]

\* faulty variant: the thinking_delta event without the update of the row
OnReasoningDelta_event_only(X, event) ==
  LET acc == event.reasoning_content
      shown == [X.W.steps[X.t.step] EXCEPT !.reasoning_content = acc]
  IN [X EXCEPT !.W = Emit(X.W, [event |-> "thinking_delta", step_id |-> X.t.step,
                                data |-> to_dict(shown), seq |-> 0]),
               !.t.accumulated_reasoning = acc]

\* event_type == "reasoning_delta": the step row is updated in place and a
\* thinking_delta event is put
OnReasoningDelta(X, event) ==
  LET acc == event.reasoning_content
      W1 == [X.W EXCEPT !.steps[X.t.step].reasoning_content = acc]
  IN [X EXCEPT !.W = Emit(W1, [event |-> "thinking_delta", step_id |-> X.t.step,
                               data |-> to_dict(W1.steps[X.t.step]), seq |-> 0]),
               !.t.accumulated_reasoning = acc]

\* event_type == "tool_calls"
OnToolCalls(X, event) ==
  LET acc == Get(event, "reasoning_content", X.t.accumulated_reasoning)
  IN [X EXCEPT
       !.W = _save_execution_step(X.W,
               [message_id |-> X.t.message_id, iteration |-> X.t.iteration,
                status |-> "tool_calling", reasoning_content |-> acc,
                progress |-> ToolCallingProgress(X.t.iteration)]),
       !.t.tool_calls = event.tool_calls,
       !.t.accumulated_reasoning = acc,
       !.t.accumulated_response = @ \o OrEmpty(event.content)]

\* event_type == "done"
OnDone(X, event) ==
  [X EXCEPT
     !.t.accumulated_response = @ \o event.content,
     !.t.tool_calls = event.tool_calls,
     !.t.accumulated_reasoning =
        Get(event, "reasoning_content", X.t.accumulated_reasoning)]

\* faulty variant: the return without the completed step
Finish_without_step(X) ==
  LET t == X.t
      W2 == [X.W EXCEPT
               !.messages[t.message_id].content = OrEmpty(t.assistant_response),
               !.messages[t.message_id].reasoning_content = t.final_reasoning,
               !.messages[t.message_id].tool_calls =
                  IF t.final_tool_calls # <<>>
                    THEN json_dumps(t.final_tool_calls) ELSE JsonNull]
  IN [X EXCEPT
       !.W = Emit(W2, [event |-> "done", step_id |-> 0,
                       data |-> [done |-> TRUE], seq |-> 0]),
       !.t = [pc |-> "finished", message_id |-> t.message_id,
              outcome |-> "returned", fallback_failed |-> t.fallback_failed,
              row_at_event |-> W2.messages[t.message_id].content]]

\* the completed step, the return, and run_agent's update of the assistant
\* row followed by the done event
Finish(X) ==
  LET t == X.t
      W1 == _save_execution_step(X.W,
              [message_id |-> t.message_id, iteration |-> t.iteration,
               status |-> "completed", progress |-> 100])
      W2 == [W1 EXCEPT
               !.messages[t.message_id].content = OrEmpty(t.assistant_response),
               !.messages[t.message_id].reasoning_content = t.final_reasoning,
               !.messages[t.message_id].tool_calls =
                  IF t.final_tool_calls # <<>>
                    THEN json_dumps(t.final_tool_calls) ELSE JsonNull]
  IN [X EXCEPT
       !.W = Emit(W2, [event |-> "done", step_id |-> 0,
                       data |-> [done |-> TRUE], seq |-> 0]),
       !.t = [pc |-> "finished", message_id |-> t.message_id,
              outcome |-> "returned", fallback_failed |-> t.fallback_failed,
              row_at_event |-> W2.messages[t.message_id].content]]

\* faulty variant: the done event is put on every exit, as in a finally
\* block, so a failed turn puts done and error both
Fail_after_done(X, e) ==
  LET t == X.t
      W0 == Emit(X.W, [event |-> "done", step_id |-> 0,
                       data |-> [done |-> TRUE], seq |-> 0])
      W1 == Emit(W0, [event |-> "error", step_id |-> 0,
                      data |-> [error |-> e], seq |-> 0])
  IN [X EXCEPT
       !.W = [W1 EXCEPT !.messages[t.message_id].content =
                           <<"AI service error: ">> \o e],
       !.t = [pc |-> "finished", message_id |-> t.message_id,
              outcome |-> "raised", fallback_failed |-> t.fallback_failed,
              row_at_event |-> X.W.messages[t.message_id].content]]

\* run_agent's except branch: the error event, then the error body
Fail(X, e) ==
  LET t == X.t
      W1 == Emit(X.W, [event |-> "error", step_id |-> 0,
                       data |-> [error |-> e], seq |-> 0])
  IN [X EXCEPT
       !.W = [W1 EXCEPT !.messages[t.message_id].content =
                           <<"AI service error: ">> \o e],
       !.t = [pc |-> "finished", message_id |-> t.message_id,
              outcome |-> "raised", fallback_failed |-> t.fallback_failed,
              row_at_event |-> X.W.messages[t.message_id].content]]

\* faulty variant: the tool_executing step comes before the tool_calling step
StartTool_executing_first(X, k) ==
  LET t == X.t
      tool_call == t.tool_calls[k]
      kw == [message_id |-> t.message_id, iteration |-> t.iteration,
             tool_name |-> tool_call.function.name,
             tool_arguments |-> tool_call.function.arguments,
             tool_call_id |-> tool_call.id]
      W1 == _save_execution_step(X.W,
              kw @@ [status |-> "tool_executing",
                     progress |-> ToolExecutingProgress(t.iteration)])
      W2 == _save_execution_step(W1,
              kw @@ [status |-> "tool_calling",
                     progress |-> ToolCallingProgress(t.iteration)])
  IN [X EXCEPT !.W = W2, !.t.pc = "tool", !.t.tool_index = k]

\* for tool_call in tool_calls: the tool_calling and tool_executing steps, up
\* to the await of execute_tool
StartTool(X, k) ==
  LET t == X.t
      tool_call == t.tool_calls[k]
      kw == [message_id |-> t.message_id, iteration |-> t.iteration,
             tool_name |-> tool_call.function.name,
             tool_arguments |-> tool_call.function.arguments,
             tool_call_id |-> tool_call.id]
      W1 == _save_execution_step(X.W,
              kw @@ [status |-> "tool_calling",
                     progress |-> ToolCallingProgress(t.iteration)])
      W2 == _save_execution_step(W1,
              kw @@ [status |-> "tool_executing",
                     progress |-> ToolExecutingProgress(t.iteration)])
  IN [X EXCEPT !.W = W2, !.t.pc = "tool", !.t.tool_index = k]

\* faulty variant: reasoning_content only when there is reasoning
AssistantMsg_reasoning_when_present(response, acc, tool_calls) ==
  LET base == [role |-> "assistant", content |-> OrEmpty(response)]
      with_reasoning == IF Truthy(acc) THEN base @@ [reasoning_content |-> acc]
                        ELSE base
  IN IF tool_calls # <<>> THEN with_reasoning @@ [tool_calls |-> tool_calls]
     ELSE with_reasoning

\* assistant_msg, the assistant message appended to ai_messages
AssistantMsg(response, acc, tool_calls) ==
  IF tool_calls # <<>>
    THEN [role |-> "assistant", content |-> OrEmpty(response),
          reasoning_content |-> OrEmpty(acc), tool_calls |-> tool_calls]
  ELSE IF Truthy(acc)
    THEN [role |-> "assistant", content |-> OrEmpty(response),
          reasoning_content |-> acc]
  ELSE [role |-> "assistant", content |-> OrEmpty(response)]

\* after the stream: the reasoning THINKING step, the assistant message for
\* the provider array, then the first tool call or the end of the turn
AfterStream(X) ==
  LET t == X.t
      acc == t.accumulated_reasoning
      response == t.assistant_response \o t.accumulated_response
      W1 == _save_execution_step(X.W,
              [message_id |-> t.message_id, iteration |-> t.iteration,
               status |-> "thinking", reasoning_content |-> acc,
               progress |-> ReasoningProgress(t.iteration)])
      assistant_msg == AssistantMsg(response, acc, t.tool_calls)
      X1 == [X EXCEPT
               !.W = W1,
               !.t.final_reasoning = IF Truthy(acc) THEN acc ELSE @,
               !.t.assistant_response = response,
               !.t.final_tool_calls = @ \o t.tool_calls,
               !.t.ai_messages = Append(@, assistant_msg)]
  IN IF t.tool_calls = <<>> THEN Finish(X1) ELSE StartTool(X1, 1)

\* faulty variant: the failed step without the tool message
RecordToolFailure_step_only(X, kw, error_msg) ==
  [X EXCEPT !.W = _save_execution_step(X.W,
                    kw @@ [status |-> "failed", tool_error |-> error_msg])]

\* except Exception as e: the failed step, the tool message in the table and
\* in ai_messages
RecordToolFailure(X, kw, error_msg) ==
  LET W1 == _save_execution_step(X.W,
              kw @@ [status |-> "failed", tool_error |-> error_msg])
      W2 == AddMessage(W1, "tool", error_msg, kw.tool_call_id)
  IN [X EXCEPT
        !.W = W2,
        !.t.ai_messages = Append(@, [role |-> "tool",
                                     tool_call_id |-> kw.tool_call_id,
                                     content |-> error_msg])]

\* faulty variant: the tool message is stored but not appended to ai_messages
RecordToolResult_store_only(X, kw, result) ==
  LET W1 == _save_execution_step(X.W,
              kw @@ [status |-> "tool_completed",
                     tool_result |-> IF result # <<>>
                                       THEN Prefix(result, TOOL_RESULT_LIMIT)
                                       ELSE None])
  IN [X EXCEPT !.W = AddMessage(W1, "tool", result, kw.tool_call_id)]

\* execute_tool returned: the tool_completed step, the tool message in the
\* table and in ai_messages, the todos_update event of todo_write
RecordToolResult(X, kw, result) ==
  LET W1 == _save_execution_step(X.W,
              kw @@ [status |-> "tool_completed",
                     tool_result |-> IF result # <<>>
                                       THEN Prefix(result, TOOL_RESULT_LIMIT)
                                       ELSE None])
      W2 == AddMessage(W1, "tool", result, kw.tool_call_id)
      W3 == IF kw.tool_name = "todo_write"
              THEN Emit(W2, [event |-> "todos_update", step_id |-> 0,
                             data |-> result, seq |-> 0])
              ELSE W2
  IN [X EXCEPT
        !.W = W3,
        !.t.ai_messages = Append(@, [role |-> "tool",
                                     tool_call_id |-> kw.tool_call_id,
                                     content |-> result])]

\* the loop without its range: another iteration after every tool batch
AfterTool_unbounded(X) ==
  IF X.t.tool_index < Len(X.t.tool_calls) THEN StartTool(X, X.t.tool_index + 1)
  ELSE BeginIteration(X, X.t.iteration + 1)

\* the tool call returned or raised: the tool_completed or failed step, the
\* tool message, then the next tool call, the next iteration or the end
AfterTool(X) ==
  LET t == X.t
      tool_call == t.tool_calls[t.tool_index]
      tool_name == tool_call.function.name
      parsed == json_loads_arguments(tool_call.function.arguments)
      tool_arguments == IF parsed = JSONDecodeError THEN EmptyDict ELSE parsed
      r == execute_tool(tool_name, tool_arguments)
      kw == [message_id |-> t.message_id, iteration |-> t.iteration,
             tool_name |-> tool_name,
             tool_arguments |-> tool_call.function.arguments,
             tool_call_id |-> tool_call.id,
             progress |-> ToolCompletedProgress(t.iteration)]
      error_msg == IF r.raised
                     THEN <<"tool ", tool_name, " failed: ">> \o r.error
                     ELSE <<>>
      X1 == IF r.raised THEN RecordToolFailure(X, kw, error_msg)
            ELSE RecordToolResult(X, kw, r.result)
  IN IF t.tool_index < Len(t.tool_calls) THEN StartTool(X1, t.tool_index + 1)
     ELSE IF t.iteration < IterationLimit THEN BeginIteration(X1, t.iteration + 1)
     ELSE Finish(X1)

Here == [W |-> World, t |-> turn, b |-> budget]

\* history: the provider sent these calls
Received(b, calls) ==
  [b EXCEPT !.tools = @ + Len(calls), !.work = @ + Len(calls),
            !.received = @ \o [k \in 1..Len(calls) |-> calls[k].function.arguments]]

Commit(X) ==
  /\ messages' = X.W.messages
  /\ steps' = X.W.steps
  /\ _event_queues' = X.W.queues
  /\ emitted' = X.W.emitted
  /\ turn' = X.t
  \* the next block runs in a later second
  /\ budget' = [X.b EXCEPT !.clock = @ + 1]
  /\ UNCHANGED <<sandbox, todo_snapshots>>

Init ==
  /\ messages = <<>>
  /\ steps = <<>>
  /\ _event_queues = <<>>
  /\ turn = [pc |-> "idle"]
  /\ conns = <<>>
  /\ sandbox = NoSandbox
  /\ todo_snapshots = <<>>
  /\ emitted = <<>>
  /\ budget = [work |-> 0, tools |-> 0, received |-> <<>>, clock |-> 0,
               max_iter |-> MaxIter, user_content |-> UserContent,
               settings |-> get_settings]

\* POST /messages.  The next turn is posted after the previous one ended
\* (turns of one session do not overlap).
create_message ==
  /\ turn.pc \in {"idle", "finished"}
  /\ budget.work < MaxWork
  /\ Len(SelectSeq(messages, IsAssistant)) < MaxTurns
  /\ LET settings == budget.settings
         content == _truncate_user_input(budget.user_content,
                                         settings.max_user_input_length,
                                         settings.truncation_warning_message)
         W1 == AddMessage(World, "user", content, 0)
         ai_messages == _prepare_ai_messages(W1.messages)
         W2 == AddMessage(W1, "assistant", <<>>, 0)
     IN Commit([W |-> W2, b |-> budget,
                t |-> [pc |-> "scheduled", message_id |-> Len(W2.messages),
                       ai_messages |-> ai_messages, iteration |-> 0, step |-> 0,
                       accumulated_reasoning |-> <<>>,
                       accumulated_response |-> <<>>,
                       tool_calls |-> <<>>, tool_index |-> 0,
                       final_reasoning |-> None, final_tool_calls |-> <<>>,
                       assistant_response |-> <<>>,
                       fallback_failed |-> FALSE]])
  /\ UNCHANGED conns

\* the background task starts: run_agent up to the first provider call
run_agent ==
  /\ turn.pc = "scheduled"
  /\ Commit(BeginIteration(Here, 1))
  /\ UNCHANGED conns

\* delta.reasoning_content of the n-th chunk of a stream
ReasoningChunk(n) == <<"r", ToString(n)>>
ContentOf(i) == <<"text", ToString(i)>>
ContentChoices(i) == { <<>>, ContentOf(i) }

\* the provider streams a reasoning delta
StreamReasoningDelta ==
  /\ turn.pc = "streaming"
  /\ budget.work < MaxWork
  /\ LET delta == ReasoningChunk(Len(turn.accumulated_reasoning) \div 2 + 1)
         event == [type |-> "reasoning_delta", content |-> delta,
                   reasoning_content |-> turn.accumulated_reasoning \o delta]
         X == OnReasoningDelta(Here, event)
     IN Commit([X EXCEPT !.b.work = @ + 1])
  /\ UNCHANGED conns

\* the tool calls a response may carry: the run can still make them and the
\* provider call that follows them
MaxCalls ==
  IF turn.iteration = IterationLimit THEN MaxWork - budget.work
  ELSE IF budget.work < MaxWork THEN MaxWork - budget.work - 1 ELSE 0

\* the stream finishes with finish_reason tool_calls
StreamToolCalls ==
  /\ turn.pc = "streaming"
  /\ \E k \in 1..MaxCalls :
       \E calls \in CallLists(budget.tools + 1, k) :
         \E content \in ContentChoices(turn.iteration) :
           LET event == [type |-> "tool_calls", content |-> content,
                         tool_calls |-> calls,
                         reasoning_content |-> turn.accumulated_reasoning]
               X == AfterStream(OnToolCalls(Here, event))
           IN Commit([X EXCEPT !.b = Received(@, calls)])
  /\ UNCHANGED conns

\* the stream finishes with another finish_reason: done, no tool calls
StreamDone ==
  /\ turn.pc = "streaming"
  /\ LET content == ContentOf(turn.iteration) IN
       LET event == [type |-> "done", content |-> content, tool_calls |-> <<>>,
                     reasoning_content |-> turn.accumulated_reasoning]
       IN Commit(AfterStream(OnDone(Here, event)))
  /\ UNCHANGED conns

\* the stream ends and no chunk carried a finish_reason: no terminal event
StreamEndsWithoutFinish ==
  /\ turn.pc = "streaming"
  /\ Commit(AfterStream(Here))
  /\ UNCHANGED conns

\* what the non-streaming API call of the fallback may give
FallbackReplies ==
  { [raised |-> TRUE] }
  \cup { [raised |-> FALSE, content |-> ContentOf(turn.iteration),
          tool_calls |-> calls, reasoning |-> reasoning] :
           calls \in { <<>> } \cup
                     (IF MaxCalls >= 1
                        THEN { <<ToolCall(budget.tools + 1,
                                  [name |-> "write", arguments |-> ArgCompact])>> }
                        ELSE {}),
           reasoning \in { None } }

\* the stream raises: chat_with_tools_streaming falls back to chat_with_tools
\* and yields its result as a done event
StreamFallback ==
  /\ turn.pc = "streaming"
  /\ \E reply \in FallbackReplies :
       LET event == FallbackDoneEvent(reply)
           X == AfterStream(OnDone([Here EXCEPT !.t.fallback_failed = reply.raised],
                                   event))
       IN Commit([X EXCEPT !.b = Received(@, event.tool_calls)])
  /\ UNCHANGED conns

\* an exception leaves the streaming block of _run_agent_loop (except: raise)
\* and reaches run_agent's except branch
StreamRaises ==
  /\ turn.pc = "streaming"
  /\ Commit(Fail(Here, <<"e">>))
  /\ UNCHANGED conns

\* execute_tool returned or raised
ToolReturns ==
  /\ turn.pc = "tool"
  /\ Commit(AfterTool(Here))
  /\ UNCHANGED conns

(* ---------------------------- SSE endpoint ---------------------------- *)
\* the rows of table agent_execution_steps of one message
StepsOf(message_id) == SelectSeq(steps, LAMBDA st : st.message_id = message_id)

\* nothing was yielded yet
NoEvent == [event |-> "", step_id |-> 0, seq |-> 0, data |-> <<>>]

\* .order_by(AgentExecutionStep.created_at.desc()).first(): a row with the
\* greatest created_at; SQL leaves the choice among equal keys open
LatestByCreatedAt(rows) ==
  { rows[k] : k \in { k \in 1..Len(rows) :
                        \A l \in 1..Len(rows) :
                          rows[l].created_at <= rows[k].created_at } }

\* the first event of a connection: sync when the latest step read is neither
\* completed nor failed, else nothing
FirstEvent(latest_message, latest_step) ==
  IF latest_step.status \notin {"completed", "failed"}
    THEN [event |-> "sync", step_id |-> 0, seq |-> 0,
          data |-> [message_id |-> latest_message.id,
                    latest_step |-> to_dict(latest_step),
                    is_running |-> TRUE]]
    ELSE NoEvent

\* history: the first event of a connection is numbered with the count of
\* events put before the connection was made
Connected(first) == [first EXCEPT !.seq = Len(emitted)]

\* GET /messages/stream: event_generator up to its first wait on the queue.
\* The queue is fetched (and created), then a sync event is yielded when the
\* latest step of the latest assistant message is neither completed nor failed.
stream_execution_steps ==
  /\ budget.work < MaxWork
  /\ LET assistants == SelectSeq(messages, IsAssistant)
         latest_message == assistants[Len(assistants)]
         msg_steps == StepsOf(latest_message.id)
     IN IF assistants = <<>> \/ msg_steps = <<>>
          THEN conns' = Append(conns, [state |-> "open", ping_counter |-> 0,
                                       last |-> Connected(NoEvent)])
          ELSE \E latest_step \in LatestByCreatedAt(msg_steps) :
                 conns' = Append(conns,
                            [state |-> "open", ping_counter |-> 0,
                             last |-> Connected(FirstEvent(latest_message,
                                                           latest_step))])
  /\ _event_queues' = get_event_queue(_event_queues, session_id)
  /\ budget' = [budget EXCEPT !.work = @ + 1]
  /\ UNCHANGED <<messages, steps, turn, emitted, sandbox, todo_snapshots>>

\* faulty variant: the stream also closes on an error event
TerminalEventNames_and_error == {"completed", "failed", "done", "error"}

\* if event.get("event") in ["completed", "failed", "done"]: break
TerminalEventNames == {"completed", "failed", "done"}

\* faulty variant: the event is yielded and left on the queue
SseForward_peek(c) ==
  /\ conns[c].state = "open"
  /\ _event_queues[session_id] # <<>>
  /\ LET event == Head(_event_queues[session_id])
     IN conns' = [conns EXCEPT
                    ![c].last = event,
                    ![c].state = IF event.event \in TerminalEventNames
                                   THEN "closed" ELSE "open"]
  /\ UNCHANGED <<messages, steps, _event_queues, turn, emitted, budget, sandbox, todo_snapshots>>

\* event = await queue.get(); yield event; break on completed, failed, done
SseForward(c) ==
  /\ conns[c].state = "open"
  /\ _event_queues[session_id] # <<>>
  /\ LET event == Head(_event_queues[session_id])
     IN conns' = [conns EXCEPT
                    ![c].last = event,
                    ![c].state = IF event.event \in TerminalEventNames
                                   THEN "closed" ELSE "open"]
  /\ _event_queues' = [_event_queues EXCEPT ![session_id] = Tail(@)]
  /\ UNCHANGED <<messages, steps, turn, emitted, budget, sandbox, todo_snapshots>>

\* the wait timed out on an empty queue: a ping is yielded (wait_for raises
\* the builtin TimeoutError, as it does from Python 3.11 on)
SsePing(c) ==
  /\ conns[c].state = "open"
  /\ _event_queues[session_id] = <<>>
  /\ budget.work < MaxWork
  /\ conns' = [conns EXCEPT ![c].ping_counter = @ + 1]
  /\ budget' = [budget EXCEPT !.work = @ + 1]
  /\ UNCHANGED <<messages, steps, _event_queues, turn, emitted, sandbox, todo_snapshots>>

Next ==
  \/ create_message
  \/ run_agent
  \/ StreamReasoningDelta
  \/ StreamToolCalls
  \/ StreamDone
  \/ StreamEndsWithoutFinish
  \/ StreamFallback
  \/ StreamRaises
  \/ ToolReturns
  \/ stream_execution_steps
  \/ \E c \in DOMAIN conns : SseForward(c)
  \/ \E c \in DOMAIN conns : SsePing(c)

Spec == Init /\ [][Next]_vars

(* ------------------- the queue on its own: SpecQueue ------------------ *)
\* the events n puts leave on a queue nothing was taken from, n <= maxsize
Filled(n) ==
  [k \in 1..n |-> [event |-> "thinking_delta", step_id |-> 0, data |-> <<>>,
                   seq |-> k]]

\* queue lengths at and around the capacity
QueueFill == {0, 1, QUEUE_MAXSIZE - 1, QUEUE_MAXSIZE}

InitQueue ==
  /\ \E n \in QueueFill :
       /\ _event_queues = [s \in {session_id} |-> Filled(n)]
       /\ emitted = Filled(n)
  /\ messages = <<>>
  /\ steps = <<>>
  /\ turn = [pc |-> "idle"]
  /\ conns = <<>>
  /\ sandbox = NoSandbox
  /\ todo_snapshots = <<>>
  /\ budget = [work |-> 0, tools |-> 0, received |-> <<>>, clock |-> 0,
               max_iter |-> MaxIter, user_content |-> UserContent,
               settings |-> get_settings]

\* a producer calls _emit_event_nonblocking(get_event_queue(session_id), event)
QueuePut ==
  /\ budget.work < MaxQueueOps
  /\ \E name \in {"thinking_delta", "done"} :
       LET W == Emit(World, [event |-> name, step_id |-> 0, data |-> <<>>,
                             seq |-> 0])
       IN /\ _event_queues' = W.queues
          /\ emitted' = W.emitted
  /\ budget' = [budget EXCEPT !.work = @ + 1]
  /\ UNCHANGED <<messages, steps, turn, conns, sandbox, todo_snapshots>>

\* a consumer's queue.get() returns
QueueGet ==
  /\ budget.work < MaxQueueOps
  /\ _event_queues[session_id] # <<>>
  /\ _event_queues' = [_event_queues EXCEPT ![session_id] = Tail(@)]
  /\ budget' = [budget EXCEPT !.work = @ + 1]
  /\ UNCHANGED <<messages, steps, turn, conns, emitted, sandbox, todo_snapshots>>

NextQueue ==
  \/ QueuePut
  \/ QueueGet

SpecQueue == InitQueue /\ [][NextQueue]_vars

(* ----------------------------- properties ----------------------------- *)
\* the session's queue, empty before its creation
QueueOf ==
  IF session_id \in DOMAIN _event_queues THEN _event_queues[session_id] ELSE <<>>

StepEventNames ==
  {"thinking", "tool_calling", "tool_executing", "tool_completed", "failed",
   "completed"}

IsStepEvent(e) == e.event \in StepEventNames

Increasing(events) ==
  \A i, j \in 1..Len(events) : i < j => events[i].step_id < events[j].step_id

\* C1: every step event that was put on the queue carries the id of a row of
\* the step table, and the step events, in the order they were put and in the
\* order they wait on the queue, have increasing step ids.
C1_PersistThenEmit ==
  LET put == SelectSeq(emitted, IsStepEvent)
  IN /\ \A i \in 1..Len(put) :
          \E j \in 1..Len(steps) : steps[j].id = put[i].step_id
     /\ Increasing(put)
     /\ Increasing(SelectSeq(QueueOf, IsStepEvent))

\* step events of a tool call were put and a consumer has taken one of them
C1_Witness ==
  /\ \E i \in 1..Len(emitted) : emitted[i].event = "tool_executing"
  /\ \E c \in DOMAIN conns : IsStepEvent(conns[c].last)

Returned == turn.pc = "finished" /\ turn.outcome = "returned"
Raised == turn.pc = "finished" /\ turn.outcome = "raised"

\* C2: when _run_agent_loop has returned, the last step of the assistant
\* message is completed with progress 100 and it is the only completed step
\* of that message.
C2_ReturnEndsCompleted ==
  Returned =>
    LET own == StepsOf(turn.message_id)
    IN /\ own # <<>>
       /\ own[Len(own)].status = "completed"
       /\ own[Len(own)].progress = 100
       /\ Cardinality({ k \in 1..Len(own) : own[k].status = "completed" }) = 1

\* the loop returned because the last iteration allowed still made tool calls
C2_Witness ==
  /\ Returned
  /\ \E k \in 1..Len(steps) :
       /\ steps[k].message_id = turn.message_id
       /\ steps[k].iteration = IterationLimit
       /\ steps[k].status \in {"tool_completed", "failed"}

\* every failed step has its tool message, in the table and, while the turn
\* runs, in ai_messages
C3_Recorded ==
  \A k \in 1..Len(steps) :
    steps[k].status = "failed" =>
      /\ \E i \in 1..Len(messages) :
           /\ messages[i].role = "tool"
           /\ messages[i].tool_call_id = steps[k].tool_call_id
           /\ messages[i].content = steps[k].tool_error
      /\ (turn.pc \in {"streaming", "tool"}
            /\ steps[k].message_id = turn.message_id) =>
           \E i \in 1..Len(turn.ai_messages) :
             turn.ai_messages[i] = [role |-> "tool",
                                    tool_call_id |-> steps[k].tool_call_id,
                                    content |-> steps[k].tool_error]

\* the block that appends a failed step goes on to the next tool call, else
\* to the next iteration, else to the normal return
C3_Continues ==
  (Len(steps') > Len(steps) /\ steps'[Len(steps) + 1].status = "failed") =>
    IF turn.tool_index < Len(turn.tool_calls)
      THEN turn'.pc = "tool" /\ turn'.tool_index = turn.tool_index + 1
    ELSE IF turn.iteration < IterationLimit
      THEN turn'.pc = "streaming" /\ turn'.iteration = turn.iteration + 1
    ELSE turn'.pc = "finished" /\ turn'.outcome = "returned"

\* C3: a tool call that raises leaves a failed step with the error text and a
\* tool message with the error and the call's id, in the table and in
\* ai_messages, and the loop goes on to the next tool call, the next iteration
\* or the normal return; it never takes the failure path of the turn.
C3_ToolFailureContinues == []C3_Recorded /\ [][C3_Continues]_vars

\* a call failed, the next call of the same response was run, a further
\* iteration began and the turn returned
C3_Witness ==
  /\ Returned
  /\ \E k, l, n \in 1..Len(steps) :
       /\ k < l /\ l < n
       /\ steps[k].message_id = turn.message_id
       /\ steps[l].message_id = turn.message_id
       /\ steps[n].message_id = turn.message_id
       /\ steps[k].status = "failed"
       /\ steps[l].status = "tool_executing"
       /\ steps[l].iteration = steps[k].iteration
       /\ steps[l].tool_call_id # steps[k].tool_call_id
       /\ steps[n].iteration > steps[k].iteration

\* C4: after a turn that ended through run_agent's except branch, the latest
\* step of the assistant message is completed or failed.
C4_TerminalStepAfterFailure ==
  Raised =>
    LET own == StepsOf(turn.message_id)
    IN own # <<>> /\ own[Len(own)].status \in {"completed", "failed"}

\* C5: when the stream failed and the fallback call failed too, the turn ends
\* through the failure path: the error event was put and the assistant message
\* begins with the AI-service-error sentinel.
C5_DoubleFailureFailsTurn ==
  (turn.pc = "finished" /\ turn.fallback_failed) =>
    /\ turn.outcome = "raised"
    /\ emitted[Len(emitted)].event = "error"
    /\ Head(messages[turn.message_id].content) = "AI service error: "

\* the tool calls stored with a row of table messages
StoredCalls(m) ==
  IF m.tool_calls = JsonNull THEN <<>> ELSE json_loads(m.tool_calls)

\* C6: every stored tool message has an earlier assistant message whose stored
\* tool_calls holds a call with the tool message's tool_call_id.
C6_ToolLinkage ==
  \A i \in 1..Len(messages) :
    messages[i].role = "tool" =>
      \E j \in 1..(i - 1) :
        /\ messages[j].role = "assistant"
        /\ \E k \in 1..Len(StoredCalls(messages[j])) :
             StoredCalls(messages[j])[k].id = messages[i].tool_call_id

\* the message array of the turn, the one every provider call is given
ProviderArray == IF "ai_messages" \in DOMAIN turn THEN turn.ai_messages ELSE <<>>

CarriesToolCalls(m) ==
  m.role = "assistant" /\ "tool_calls" \in DOMAIN m /\ m.tool_calls # <<>>

\* C7: an assistant message with tool_calls in the array given to the
\* provider has a reasoning_content field, whether it came from storage or
\* was appended by the loop.
C7_ReasoningContentWithToolCalls ==
  \A i \in 1..Len(ProviderArray) :
    CarriesToolCalls(ProviderArray[i]) =>
      "reasoning_content" \in DOMAIN ProviderArray[i]

\* a provider call of a later turn is given an assistant message with tool
\* calls and the empty reasoning_content
C7_Witness ==
  /\ turn.pc = "streaming"
  /\ turn.message_id > 2
  /\ \E i \in 1..Len(ProviderArray) :
       /\ CarriesToolCalls(ProviderArray[i])
       /\ "reasoning_content" \in DOMAIN ProviderArray[i]
       /\ ProviderArray[i].reasoning_content = <<>>

\* the calls echoed in the array given to the provider
EchoedCalls ==
  UNION { { ProviderArray[i].tool_calls[k] :
              k \in 1..Len(ProviderArray[i].tool_calls) } :
          i \in { i \in 1..Len(ProviderArray) : CarriesToolCalls(ProviderArray[i]) } }

C9_Bounded ==
  /\ Len(QueueOf) <= QUEUE_MAXSIZE
  /\ \A i \in 1..(Len(QueueOf) - 1) : QueueOf[i].seq < QueueOf[i + 1].seq

\* a put appends at the tail, after removing the head of a full queue
C9_Put ==
  emitted' # emitted =>
    LET event == emitted'[Len(emitted')]
    IN _event_queues'[session_id] =
         IF Len(QueueOf) < QUEUE_MAXSIZE
           THEN Append(QueueOf, event)
           ELSE Append(Tail(QueueOf), event)

\* C9: the queue is a FIFO of at most 1000 events; a put on a queue of fewer
\* than 1000 events appends the event, a put on a queue of 1000 events
\* removes the head and appends the event, and the events that remain stay in
\* the order they were put.
C9_BoundedFifoDropOldest == []C9_Bounded /\ [][C9_Put]_vars

\* a put on a full queue has removed the oldest event
C9_Witness ==
  /\ Len(QueueOf) = QUEUE_MAXSIZE
  /\ QueueOf[1].seq = 2
  /\ QueueOf[QUEUE_MAXSIZE].seq = QUEUE_MAXSIZE + 1

\* a connection is closed exactly when the event it yielded last is named
\* completed, failed or done
C10_ClosedOnTerminal ==
  \A c \in DOMAIN conns :
    conns[c].state = "closed" <=>
      conns[c].last.event \in {"completed", "failed", "done"}

\* a connection that moves without a heartbeat was open and has yielded the
\* event it took from the head of the queue
C10_Forwards ==
  \A c \in DOMAIN conns :
    (conns'[c] # conns[c] /\ conns'[c].ping_counter = conns[c].ping_counter) =>
      /\ conns[c].state = "open"
      /\ QueueOf # <<>>
      /\ conns'[c].last = Head(QueueOf)
      /\ _event_queues'[session_id] = Tail(QueueOf)

\* C10: the SSE stream yields every event it takes from the queue, is closed
\* once it has yielded an event named completed, failed or done, and stays
\* open after an event of any other name.
C10_SseClosesOnTerminalEvent == []C10_ClosedOnTerminal /\ [][C10_Forwards]_vars

\* one stream closed on completed and another one, left with the rest of the
\* queue, closed on done
C10_Witness ==
  \E c, d \in DOMAIN conns :
    /\ conns[c].state = "closed" /\ conns[c].last.event = "completed"
    /\ conns[d].state = "closed" /\ conns[d].last.event = "done"

\* the assistant message and the step a connection made now should report
LatestMessageId ==
  LET assistants == SelectSeq(messages, IsAssistant)
  IN IF assistants = <<>> THEN 0 ELSE assistants[Len(assistants)].id

TurnIsRunning ==
  LET own == StepsOf(LatestMessageId)
  IN own # <<>> /\ own[Len(own)].status \notin {"completed", "failed"}

\* a connection is made: its first event is sync exactly when the step
\* appended last to the latest assistant message is neither completed nor
\* failed, and the sync reports that step
C11_OnConnect ==
  Len(conns') > Len(conns) =>
    LET first == conns'[Len(conns')].last
        own == StepsOf(LatestMessageId)
    IN /\ first.event = "sync" <=> TurnIsRunning
       /\ first.event = "sync" =>
            first.data = [message_id |-> LatestMessageId,
                          latest_step |-> to_dict(own[Len(own)]),
                          is_running |-> TRUE]

\* C11: on connect a sync event {message_id, latest_step, is_running} is
\* yielded if and only if the latest assistant message has a latest step that
\* is neither completed nor failed, and latest_step is the step appended last.
C11_SyncOnConnect == [][C11_OnConnect]_vars

\* a connection that yields its first queue event yields one that was put
\* after the connection was made
C12_FirstFromQueue ==
  \A c \in DOMAIN conns :
    (conns[c].last.event \in {"", "sync"} /\ conns'[c] # conns[c]
       /\ conns'[c].ping_counter = conns[c].ping_counter) =>
      conns'[c].last.seq > conns[c].last.seq

\* C12: apart from the initial sync, a connection delivers only events that
\* were put after the connection was made; events put while no consumer was
\* connected are never delivered to a later connection.
C12_NoReplay == [][C12_FirstFromQueue]_vars

\* C13: the session's queue exists from its first use, and once the turn has
\* posted its done or error event and every SSE stream of the session has
\* closed, the queue is no longer in _event_queues.
C13_QueueLifecycle ==
  (/\ turn.pc = "finished"
   /\ conns # <<>>
   /\ \A c \in DOMAIN conns : conns[c].state = "closed")
    => session_id \notin DOMAIN _event_queues

\* an event a connection took from the queue (not its first event)
FromQueue(e) == e.event \notin {"", "sync"}

\* the event a connection yields was put after every event any connection
\* has yielded before
C14_Newer ==
  \A c \in DOMAIN conns :
    (conns'[c] # conns[c] /\ conns'[c].ping_counter = conns[c].ping_counter) =>
      /\ _event_queues'[session_id] = Tail(QueueOf)
      /\ \A d \in DOMAIN conns :
           /\ (d # c => conns'[d] = conns[d])
           /\ (FromQueue(conns[d].last) =>
                 conns'[c].last.seq > conns[d].last.seq)

InitIterations ==
  /\ messages = <<>>
  /\ steps = <<>>
  /\ _event_queues = <<>>
  /\ turn = [pc |-> "idle"]
  /\ conns = <<>>
  /\ sandbox = NoSandbox
  /\ todo_snapshots = <<>>
  /\ emitted = <<>>
  /\ budget = [work |-> 0, tools |-> 0, received |-> <<>>, clock |-> 0,
               max_iter |-> _MAX_AGENT_ITERATIONS, user_content |-> UserContent,
               settings |-> get_settings]

\* the provider answers the iteration with one tool call
StreamOneToolCall ==
  /\ turn.pc = "streaming"
  /\ LET calls == <<ToolCall(budget.tools + 1,
                             [name |-> "write", arguments |-> ArgCompact])>>
         event == [type |-> "tool_calls", content |-> <<>>, tool_calls |-> calls,
                   reasoning_content |-> turn.accumulated_reasoning]
         X == AfterStream(OnToolCalls(Here, event))
     IN Commit([X EXCEPT !.b = Received(@, calls)])
  /\ UNCHANGED conns

NextIterations ==
  \/ create_message
  \/ run_agent
  \/ StreamOneToolCall
  \/ ToolReturns

SpecIterations == InitIterations /\ [][NextIterations]_vars

(* ------------------------------- C15 --------------------------------- *)
\* the iterations for which the turn called the provider
IterationsOf(m) ==
  { steps[k].iteration : k \in { j \in DOMAIN steps : steps[j].message_id = m } }

\* every iteration calls the provider once and stamps its number on its steps,
\* so the numbers on the steps bound the provider calls
IterationsWithin(N) ==
  /\ \A k \in DOMAIN steps : steps[k].iteration \in 1..N
  /\ Returned =>
       /\ steps # <<>>
       /\ steps[Len(steps)].message_id = turn.message_id
       /\ steps[Len(steps)].status = "completed"

\* C15 as stated: a turn calls the provider at most 100 times, every step
\* carries an iteration number in 1..100, and a loop that has returned ended
\* with the completed step.
C15_AtMost100Iterations == IterationsWithin(100)

\* C15 as amended: a turn calls the provider at most _MAX_AGENT_ITERATIONS
\* (500) times, every step carries an iteration number in
\* 1.._MAX_AGENT_ITERATIONS, and a loop that has returned, also one whose
\* every iteration made a tool call, ended with the completed step.
C15_BoundedIterations == IterationsWithin(_MAX_AGENT_ITERATIONS)

\* the loop used all its iterations and returned
C15_Witness ==
  /\ Returned
  /\ steps[Len(steps)].iteration = _MAX_AGENT_ITERATIONS
  /\ IterationsOf(turn.message_id) = 1.._MAX_AGENT_ITERATIONS

(* ------------------------------- C16 --------------------------------- *)
\* result = await agent_sandbox.execute_tool(...): the coroutine is awaited
\* as it is, so a tool whose execute does not return leaves the task at the
\* await
ToolNeverReturns ==
  /\ turn.pc = "tool"
  /\ turn' = [turn EXCEPT !.pc = "awaiting_tool"]
  /\ UNCHANGED <<messages, steps, _event_queues, conns, emitted, budget, sandbox, todo_snapshots>>

NextToolHangs ==
  \/ Next
  \/ ToolNeverReturns

SpecToolHangs == Init /\ [][NextToolHangs]_vars

\* the steps of the background task
AgentTask ==
  \/ run_agent
  \/ StreamReasoningDelta
  \/ StreamToolCalls
  \/ StreamDone
  \/ StreamEndsWithoutFinish
  \/ StreamFallback
  \/ StreamRaises
  \/ ToolReturns

\* C16: the loop never waits forever on a tool: when a tool's execute does
\* not return, the task still has a step to take (the call is abandoned after
\* T_TOOL, a failed step and an error tool message are recorded, and the loop
\* proceeds).
C16_ToolCallBounded == turn.pc = "awaiting_tool" => ENABLED AgentTask

(* ------------------------------- C17 --------------------------------- *)
\* C17: for the steps of one assistant message in append order the progress
\* values never decrease, every value lies in 0..100, and a completed step
\* has progress 100.
C17_ProgressMonotonic ==
  \A m \in DOMAIN messages :
    LET own == StepsOf(m)
    IN /\ \A k \in 1..Len(own) : own[k].progress \in 0..100
       /\ \A k \in 1..Len(own) : own[k].status = "completed" => own[k].progress = 100
       /\ \A k \in 1..(Len(own) - 1) : own[k].progress <= own[k + 1].progress

(* ------------------------------- C18 --------------------------------- *)
\* the first j chunks of a stream, concatenated
RECURSIVE Chunks(_)
Chunks(j) == IF j = 0 THEN <<>> ELSE Chunks(j - 1) \o ReasoningChunk(j)

\* the stream of the current iteration ends with text only
EndsWithTextOnly == StreamDone \/ StreamEndsWithoutFinish

\* after an iteration of k >= 1 reasoning deltas has ended with text only:
\* `rows` thinking rows of that iteration, each with the k chunks concatenated
\* as its reasoning text, and k thinking_delta events, the j-th carrying the
\* first j chunks
MergedInto(rows) ==
  LET k == Len(turn.accumulated_reasoning) \div 2
      thinking == SelectSeq(steps', LAMBDA st :
                     /\ st.message_id = turn.message_id
                     /\ st.iteration = turn.iteration
                     /\ st.status = "thinking")
      deltas == SelectSeq(emitted', LAMBDA e :
                     e.event = "thinking_delta" /\ e.step_id = turn.step)
  IN (EndsWithTextOnly /\ k >= 1) =>
       /\ Len(thinking) = rows
       /\ \A n \in 1..Len(thinking) : thinking[n].reasoning_content = Chunks(k)
       /\ Len(deltas) = k
       /\ \A j \in 1..Len(deltas) : deltas[j].data.reasoning_content = Chunks(j)

\* C18 as stated: an iteration of k reasoning deltas that ends with text only
\* leaves exactly one thinking step row, holding the concatenation of the k
\* chunks, and k thinking_delta events with the growing text.
C18_OneThinkingRow == [][MergedInto(1)]_vars

\* C18 as amended: such an iteration leaves exactly two thinking step rows,
\* the row saved at the top of the iteration and updated in place by every
\* delta and the row saved after the stream, both holding the concatenation
\* of the k chunks, and k thinking_delta events, the j-th carrying the
\* concatenation of the first j chunks.
C18_ReasoningDeltasMerged == [][MergedInto(2)]_vars

\* a turn ended with text only after at least two reasoning deltas
C18_Witness ==
  /\ Returned
  /\ steps[Len(steps) - 1].status = "thinking"
  /\ steps[Len(steps) - 1].reasoning_content = Chunks(2)
  /\ steps[Len(steps) - 2].status = "thinking"
  /\ steps[Len(steps) - 2].reasoning_content = Chunks(2)

(* ------------------------------- C19 --------------------------------- *)
\* .order_by(AgentExecutionStep.created_at.asc()).all() may return `result`
\* for rows that `result` is a permutation of: the key does not decrease
MayReturnAsc(result) ==
  \A k \in 1..(Len(result) - 1) : result[k].created_at <= result[k + 1].created_at

\* rows with the k-th and the next exchanged
Exchanged(rows, k) ==
  [n \in 1..Len(rows) |-> IF n = k THEN rows[k + 1]
                          ELSE IF n = k + 1 THEN rows[k] ELSE rows[n]]

\* C19: for every assistant message, ordering its steps by created_at gives
\* the insertion order and nothing else, also for steps created within the
\* same second, and the latest step by created_at is the last step inserted.
C19_CreatedAtIsInsertionOrder ==
  \A m \in DOMAIN messages :
    LET own == StepsOf(m)
    IN /\ MayReturnAsc(own)
       /\ \A k \in 1..(Len(own) - 1) : ~MayReturnAsc(Exchanged(own, k))
       /\ own # <<>> => LatestByCreatedAt(own) = { own[Len(own)] }

(* ------- _apply_truncation_strategy on its own: SpecTruncation -------- *)
\* the dicts a message list is made of: system, two users, assistants without
\* and with tool_calls, and the tool messages answering those calls
MessageMenu ==
  { [role |-> "system", content |-> <<"s">>],
    [role |-> "user", content |-> <<"u1">>],
    [role |-> "user", content |-> <<"u2">>],
    [role |-> "assistant", content |-> <<"ok">>],
    [role |-> "assistant", content |-> <<"ok">>, tool_calls |-> <<[id |-> 1]>>],
    [role |-> "assistant", content |-> <<"ok">>, tool_calls |-> <<[id |-> 2]>>],
    [role |-> "tool", tool_call_id |-> 1, content |-> <<"result">>],
    [role |-> "tool", tool_call_id |-> 2, content |-> <<"result">>] }

MessageLists == UNION { [1..n -> MessageMenu] : n \in 0..MaxMessages }

InitTruncation ==
  /\ messages = <<>>
  /\ steps = <<>>
  /\ _event_queues = <<>>
  /\ conns = <<>>
  /\ sandbox = NoSandbox
  /\ todo_snapshots = <<>>
  /\ emitted = <<>>
  /\ budget = [work |-> 0, tools |-> 0, received |-> <<>>, clock |-> 0,
               max_iter |-> MaxIter, user_content |-> UserContent,
               settings |-> get_settings]
  /\ \E msgs \in MessageLists, max_history \in 0..MaxHistory :
       turn = [pc |-> "truncating", messages |-> msgs, max_history |-> max_history]

\* the call of _apply_truncation_strategy(messages, max_history)
ApplyTruncation ==
  /\ turn.pc = "truncating"
  /\ turn' = [pc |-> "truncated", messages |-> turn.messages,
              max_history |-> turn.max_history,
              result |-> _apply_truncation_strategy(turn.messages, turn.max_history)]
  /\ UNCHANGED <<messages, steps, _event_queues, conns, emitted, budget, sandbox, todo_snapshots>>

NextTruncation == ApplyTruncation

SpecTruncation == InitTruncation /\ [][NextTruncation]_vars

(* ------------------------------- C20 --------------------------------- *)
\* C20: the assistant messages of the result are exactly the last
\* min(max_history, number of assistant messages) assistant messages of the
\* input, for every input list and every max_history >= 0.
C20_KeepsLastAssistants ==
  turn.pc = "truncated" =>
    LET assistants == SelectSeq(turn.messages, IsAssistant)
        n == Len(assistants)
        kept == Min(turn.max_history, n)
    IN SelectSeq(turn.result, IsAssistant) = SubSeq(assistants, n - kept + 1, n)

(* ------------------------------- C21 --------------------------------- *)
RECURSIVE IsSubsequence(_, _)
\* a is b with some elements left out
IsSubsequence(a, b) ==
  IF a = <<>> THEN TRUE
  ELSE IF b = <<>> THEN FALSE
  ELSE IF Head(a) = Head(b) THEN IsSubsequence(Tail(a), Tail(b))
  ELSE IsSubsequence(a, Tail(b))

IsSystem(m) == m.role = "system"
IsUser(m) == m.role = "user"
IsTool(m) == m.role = "tool"

\* C21: the result of _apply_truncation_strategy is a subsequence of its
\* input, holds every system message of the input, holds the first user
\* message if there is one, and holds no other user message.
C21_SystemAndFirstUserKept ==
  turn.pc = "truncated" =>
    LET users == SelectSeq(turn.messages, IsUser)
    IN /\ IsSubsequence(turn.result, turn.messages)
       /\ SelectSeq(turn.result, IsSystem) = SelectSeq(turn.messages, IsSystem)
       /\ SelectSeq(turn.result, IsUser) =
            IF users = <<>> THEN <<>> ELSE <<users[1]>>

\* a list with a system message after two different user messages was
\* truncated
C21_Witness ==
  /\ turn.pc = "truncated"
  /\ \E i, j, k \in 1..Len(turn.messages) :
       /\ i < j /\ j < k
       /\ IsUser(turn.messages[i]) /\ IsUser(turn.messages[j])
       /\ turn.messages[i] # turn.messages[j]
       /\ IsSystem(turn.messages[k])
  /\ Len(turn.result) < Len(turn.messages)

(* ------------------------------- C22 --------------------------------- *)
\* the ids of the tool calls of the assistant messages in msgs
ToolCallIdsOf(msgs) ==
  UNION { { msgs[j].tool_calls[k].id : k \in 1..Len(msgs[j].tool_calls) } :
          j \in { j \in 1..Len(msgs) :
                    IsAssistant(msgs[j]) /\ "tool_calls" \in DOMAIN msgs[j] } }

\* C22: the tool messages of the result are exactly the tool messages of the
\* input whose tool_call_id is the id of a tool call of an assistant message
\* in the result.
C22_ToolsFollowKeptAssistants ==
  turn.pc = "truncated" =>
    LET kept_ids == ToolCallIdsOf(turn.result)
    IN SelectSeq(turn.result, IsTool) =
         SelectSeq(turn.messages,
                   LAMBDA m : IsTool(m) /\ m.tool_call_id \in kept_ids)

\* an assistant was dropped with its tool message and a later assistant was
\* kept with its own
C22_Witness ==
  /\ turn.pc = "truncated"
  /\ turn.max_history = 1
  /\ Len(turn.messages) = 4
  /\ IsAssistant(turn.messages[1]) /\ IsTool(turn.messages[2])
  /\ IsAssistant(turn.messages[3]) /\ IsTool(turn.messages[4])
  /\ ToolCallIdsOf(<<turn.messages[1]>>) = { turn.messages[2].tool_call_id }
  /\ ToolCallIdsOf(<<turn.messages[3]>>) = { turn.messages[4].tool_call_id }
  /\ turn.result = <<turn.messages[3], turn.messages[4]>>

(* ------------------------------- C23 --------------------------------- *)
\* C23: the array create_message builds with _prepare_ai_messages starts
\* with the system prompt, holds it once, and holds each of the last
\* min(max_history_messages, number of stored assistant messages) assistant
\* messages of the session, with or without tool_calls.
C23_PromptKeepsAssistants ==
  turn.pc = "scheduled" =>
    LET out == turn.ai_messages
        \* the rows stored when the array was built: all but the new
        \* assistant row
        rows == SubSeq(messages, 1, Len(messages) - 1)
        stored == SelectSeq(rows, IsAssistant)
        n == Len(stored)
        kept == Min(max_history_messages, n)
        prompt == [role |-> "system", content |-> _SYSTEM_PROMPT]
    IN /\ out # <<>> /\ out[1] = prompt
       /\ \A k \in 2..Len(out) : out[k] # prompt
       /\ Len(SelectSeq(out, IsAssistant)) = kept
       /\ \A j \in (n - kept + 1)..n :
            \E k \in 1..Len(out) :
              IsAssistant(out[k]) /\ out[k].content = stored[j].content

(* --------- the cap on the user input on its own: SpecUserInput -------- *)
\* contents of up to MaxInputLength characters, and contents around the
\* default max_user_input_length
UserContents ==
  UNION { [1..n -> {"a", "b"}] : n \in 0..MaxInputLength }
  \cup { [k \in 1..n |-> "a"] : n \in (max_user_input_length - 1)..(max_user_input_length + 2) }

\* the settings a deployment may run with: the defaults, and short limits
\* with and without a warning text
SettingsChoices ==
  { get_settings }
  \cup { [max_user_input_length |-> max_length, truncation_warning_message |-> w] :
           max_length \in 0..(MaxInputLength - 1),
           w \in { <<>>, get_settings.truncation_warning_message } }

InitUserInput ==
  /\ messages = <<>>
  /\ steps = <<>>
  /\ _event_queues = <<>>
  /\ turn = [pc |-> "idle"]
  /\ conns = <<>>
  /\ sandbox = NoSandbox
  /\ todo_snapshots = <<>>
  /\ emitted = <<>>
  /\ \E content \in UserContents, settings \in SettingsChoices :
       budget = [work |-> 0, tools |-> 0, received |-> <<>>, clock |-> 0,
                 max_iter |-> MaxIter, user_content |-> content,
                 settings |-> settings]

NextUserInput ==
  \/ create_message
  \/ run_agent
  \/ StreamDone

SpecUserInput == InitUserInput /\ [][NextUserInput]_vars

TodoCallMenu ==
  { [name |-> "todo", arguments |-> ArgTodoAdd],
    [name |-> "todo_write", arguments |-> ArgSpaced] }

\* the stream finishes with one todo call
StreamTodoCall ==
  /\ turn.pc = "streaming"
  /\ MaxCalls >= 1
  /\ \E kind \in TodoCallMenu :
       LET calls == <<ToolCall(budget.tools + 1, kind)>>
           event == [type |-> "tool_calls", content |-> <<>>, tool_calls |-> calls,
                     reasoning_content |-> turn.accumulated_reasoning]
           X == AfterStream(OnToolCalls(Here, event))
       IN Commit([X EXCEPT !.b = Received(@, calls)])
  /\ UNCHANGED conns

NextTodo ==
  \/ Next
  \/ StreamTodoCall

SpecTodo == Init /\ [][NextTodo]_vars

(* ------------------------------- C28 --------------------------------- *)
\* C28: every tool_completed event of a todo call (tool todo or todo_write)
\* is followed on the queue by a todos_update event, put before the next
\* step event.
C28_TodosUpdateAfterTodoCall ==
  \A k \in DOMAIN emitted :
    (emitted[k].event = "tool_completed"
       /\ emitted[k].data.tool_name \in {"todo", "todo_write"}) =>
      \E j \in (k + 1)..Len(emitted) :
        /\ emitted[j].event = "todos_update"
        /\ \A i \in (k + 1)..(j - 1) : ~IsStepEvent(emitted[i])

(* ------- chat_with_tools_streaming on its own: SpecStreaming ---------- *)
\* what a chunk of the provider's stream may carry; "raise" is the transport
\* error met when the next chunk is read
ChunkMenu ==
  { [kind |-> "reasoning", text |-> <<"r">>],
    [kind |-> "content", text |-> <<"c">>],
    \* tool-call deltas: the first of index 0 as the provider sends it, a
    \* continuation (no id, no name) of index 0, and one of index 1
    [kind |-> "tool_call", index |-> 0, id |-> 1, type |-> "function",
     name |-> "write", arguments |-> "{\"filename\":"],
    [kind |-> "tool_call", index |-> 0, id |-> 0, type |-> "",
     name |-> "", arguments |-> "\"a.txt\"}"],
    [kind |-> "tool_call", index |-> 1, id |-> 2, type |-> "function",
     name |-> "todo", arguments |-> "{}"],
    [kind |-> "finish", finish_reason |-> "stop"],
    [kind |-> "finish", finish_reason |-> "tool_calls"],
    [kind |-> "raise"] }

ChunkLists == UNION { [1..n -> ChunkMenu] : n \in 0..MaxChunks }

\* what the non-streaming call of the fallback may give
FallbackMenu ==
  { [raised |-> TRUE],
    [raised |-> FALSE, content |-> <<"c">>, tool_calls |-> <<>>, reasoning |-> None],
    [raised |-> FALSE, content |-> <<"c">>, reasoning |-> <<"r">>,
     tool_calls |-> <<ToolCall(1, [name |-> "write", arguments |-> ArgCompact])>>] }

\* faulty variant: a fragment goes to the entry that was created last
AccumulateToolCall_into_last(calls, tc) ==
  IF calls = <<>>
    THEN << [index |-> tc.index,
             call |-> [id |-> tc.id, type |-> tc.type,
                       function |-> [name |-> tc.name, arguments |-> tc.arguments]]] >>
    ELSE [calls EXCEPT ![Len(calls)].call.function.arguments = @ \o tc.arguments]

\* accumulated_tool_calls after one delta: a dict by index, in the order
\* the indices were first seen; the first delta of an index creates the
\* entry, later ones extend its arguments
AccumulateToolCall(calls, tc) ==
  IF \E k \in 1..Len(calls) : calls[k].index = tc.index
    THEN LET k == CHOOSE j \in 1..Len(calls) : calls[j].index = tc.index
         IN [calls EXCEPT ![k].call.function.arguments = @ \o tc.arguments]
    ELSE Append(calls, [index |-> tc.index,
                        call |-> [id |-> tc.id, type |-> tc.type,
                                  function |-> [name |-> tc.name,
                                                arguments |-> tc.arguments]]])

RECURSIVE StreamFrom(_, _, _, _, _, _)
\* the events chat_with_tools_streaming yields from chunk i on, with
\* accumulated_reasoning, accumulated_content and accumulated_tool_calls
StreamFrom(chunks, i, reasoning, content, calls, reply) ==
  IF i > Len(chunks) THEN <<>>
  ELSE LET chunk == chunks[i] IN
    IF chunk.kind = "raise"
      THEN << FallbackDoneEvent(reply) >>
    ELSE IF chunk.kind = "reasoning"
      THEN << [type |-> "reasoning_delta", content |-> chunk.text,
               reasoning_content |-> reasoning \o chunk.text] >>
           \o StreamFrom(chunks, i + 1, reasoning \o chunk.text, content, calls, reply)
    ELSE IF chunk.kind = "content"
      THEN StreamFrom(chunks, i + 1, reasoning, content \o chunk.text, calls, reply)
    ELSE IF chunk.kind = "tool_call"
      THEN StreamFrom(chunks, i + 1, reasoning, content,
                      AccumulateToolCall(calls, chunk), reply)
    ELSE IF chunk.finish_reason = "tool_calls" /\ calls # <<>>
      THEN << [type |-> "tool_calls", content |-> content,
               tool_calls |-> [k \in 1..Len(calls) |-> calls[k].call],
               reasoning_content |-> reasoning] >>
    ELSE << [type |-> "done", content |-> content, tool_calls |-> <<>>,
             reasoning_content |-> reasoning] >>

\* the events one invocation yields, in order
chat_with_tools_streaming(chunks, reply) ==
  StreamFrom(chunks, 1, <<>>, <<>>, <<>>, reply)

InitStreaming ==
  /\ messages = <<>>
  /\ steps = <<>>
  /\ _event_queues = <<>>
  /\ conns = <<>>
  /\ sandbox = NoSandbox
  /\ todo_snapshots = <<>>
  /\ emitted = <<>>
  /\ budget = [work |-> 0, tools |-> 0, received |-> <<>>, clock |-> 0,
               max_iter |-> MaxIter, user_content |-> UserContent,
               settings |-> get_settings]
  /\ \E chunks \in ChunkLists, reply \in FallbackMenu :
       turn = [pc |-> "calling", chunks |-> chunks, reply |-> reply]

\* the consumer reads the generator to its end
ConsumeStream ==
  /\ turn.pc = "calling"
  /\ turn' = [pc |-> "consumed", chunks |-> turn.chunks, reply |-> turn.reply,
              events |-> chat_with_tools_streaming(turn.chunks, turn.reply)]
  /\ UNCHANGED <<messages, steps, _event_queues, conns, emitted, budget,
                 sandbox, todo_snapshots>>

NextStreaming == ConsumeStream

SpecStreaming == InitStreaming /\ [][NextStreaming]_vars

(* ------------------------------- C29 --------------------------------- *)
IsTerminal(event) == event.type \in {"tool_calls", "done"}

\* C29: an invocation of chat_with_tools_streaming yields exactly one
\* terminal event (tool_calls or done), yields it last, and a done event
\* carries no tool calls; for streams that finish with a finish reason, that
\* end without one, and that break with a transport error.
C29_OneTerminalEventLast ==
  turn.pc = "consumed" =>
    LET events == turn.events
    IN /\ Len(SelectSeq(events, IsTerminal)) = 1
       /\ events # <<>> /\ IsTerminal(events[Len(events)])
       /\ \A k \in 1..Len(events) :
            events[k].type = "done" => events[k].tool_calls = <<>>

(* --------------- TodoWriteTool.execute: SpecTodoWrite ----------------- *)
OtherSessionId == "s2"

\* items a todos argument may hold: dicts with a status, a dict without
\* one, and an item that is no dict
TodoItems ==
  { [content |-> "a", status |-> "pending"],
    [content |-> "b", status |-> "in_progress"],
    [content |-> "c", status |-> "completed"],
    [content |-> "d", status |-> "blocked"],
    [content |-> "e"],
    [not_a_dict |-> "x"] }

\* a Python list of items
PyList(items) == [list |-> items]

TodoLists == { PyList(items) : items \in UNION { [1..n -> TodoItems] : n \in 0..MaxTodos } }

\* isinstance(v, list)
IsList(v) == "list" \in DOMAIN v

\* a todos argument that is no list
NotAList == [str |-> "x"]

IsDict(t) == "not_a_dict" \notin DOMAIN t

\* t.get("status") of a dict
GetStatus(t) == IF "status" \in DOMAIN t THEN t.status ELSE "None"

\* sum(1 for t in todos if t.get("status") == status)
CountStatus(todos, status) ==
  Cardinality({ k \in 1..Len(todos.list) : GetStatus(todos.list[k]) = status })

\* the first row of the session, 0 when the query has none
FirstSnapshot(snapshots, of_session) ==
  LET ks == { k \in 1..Len(snapshots) : snapshots[k].session_id = of_session }
  IN IF ks = {} THEN 0 ELSE CHOOSE k \in ks : \A j \in ks : k <= j

\* a variant that extends the stored list instead of replacing it
TodoWriteTool_execute_merging(snapshots, of_session, todos) ==
  IF ~IsList(todos)
    THEN [snapshots |-> snapshots, ok |-> FALSE,
          result |-> <<"error: todos must be an array">>]
  ELSE
    LET k == FirstSnapshot(snapshots, of_session)
        written ==
          IF k # 0
            THEN [snapshots EXCEPT ![k].todos_json =
                    json_dumps(PyList(json_loads(@).list \o todos.list))]
            ELSE Append(snapshots, [id |-> Len(snapshots) + 1,
                                    session_id |-> of_session,
                                    todos_json |-> json_dumps(todos)])
    IN [snapshots |-> written, ok |-> TRUE,
        result |-> json_dumps([todos |-> todos, total |-> Len(todos.list),
                               completed |-> CountStatus(todos, "completed"),
                               in_progress |-> CountStatus(todos, "in_progress"),
                               pending |-> CountStatus(todos, "pending")])]

\* TodoWriteTool.execute: the table after the call and what it returns
TodoWriteTool_execute(snapshots, of_session, todos) ==
  IF ~IsList(todos)
    THEN [snapshots |-> snapshots, ok |-> FALSE,
          result |-> <<"error: todos must be an array">>]
  ELSE
    LET todos_json == json_dumps(todos)
        k == FirstSnapshot(snapshots, of_session)
        written ==
          IF k # 0
            THEN [snapshots EXCEPT ![k].todos_json = todos_json]
            ELSE Append(snapshots, [id |-> Len(snapshots) + 1,
                                    session_id |-> of_session,
                                    todos_json |-> todos_json])
    IN \* the commit comes before the summary: an item that is no dict
       \* raises in t.get after the snapshot is stored
       IF \E j \in 1..Len(todos.list) : ~IsDict(todos.list[j])
         THEN [snapshots |-> written, ok |-> FALSE,
               result |-> <<"error: ", "'str' object has no attribute 'get'">>]
         ELSE [snapshots |-> written, ok |-> TRUE,
               result |-> json_dumps([todos |-> todos, total |-> Len(todos.list),
                                      completed |-> CountStatus(todos, "completed"),
                                      in_progress |-> CountStatus(todos, "in_progress"),
                                      pending |-> CountStatus(todos, "pending")])]

\* the snapshot the session may have before the call
PreviousTodos ==
  { PyList(<<>>),
    PyList(<< [content |-> "a", status |-> "pending"] >>),
    PyList(<< [content |-> "c", status |-> "completed"],
              [content |-> "b", status |-> "in_progress"] >>) }

InitTodoWrite ==
  /\ messages = <<>>
  /\ steps = <<>>
  /\ _event_queues = <<>>
  /\ conns = <<>>
  /\ sandbox = NoSandbox
  /\ emitted = <<>>
  /\ budget = [work |-> 0, tools |-> 0, received |-> <<>>, clock |-> 0,
               max_iter |-> MaxIter, user_content |-> UserContent,
               settings |-> get_settings]
  /\ \E other \in BOOLEAN, previous \in PreviousTodos \cup {NotAList} :
       todo_snapshots =
         (IF other
            THEN << [id |-> 1, session_id |-> OtherSessionId,
                     todos_json |-> json_dumps(PyList(<< [content |-> "z", status |-> "pending"] >>))] >>
            ELSE <<>>)
         \o (IF previous = NotAList THEN <<>>
             ELSE << [id |-> IF other THEN 2 ELSE 1, session_id |-> session_id,
                      todos_json |-> json_dumps(previous)] >>)
  /\ turn = [pc |-> "idle"]

\* one call of the tool in session session_id; the model may call it again
TodoWrite ==
  /\ turn.pc \in {"idle", "once"}
  /\ \E todos \in TodoLists \cup {NotAList} :
       LET r == TodoWriteTool_execute(todo_snapshots, session_id, todos)
       IN /\ todo_snapshots' = r.snapshots
          /\ turn' = [pc |-> IF turn.pc = "idle" THEN "once" ELSE "twice",
                      todos |-> todos, ok |-> r.ok, result |-> r.result,
                      before |-> todo_snapshots,
                      previous_todos |-> IF turn.pc = "idle" THEN NotAList ELSE turn.todos,
                      previous_ok |-> IF turn.pc = "idle" THEN FALSE ELSE turn.ok]
  /\ UNCHANGED <<messages, steps, _event_queues, conns, emitted, budget, sandbox>>

NextTodoWrite == TodoWrite

SpecTodoWrite == InitTodoWrite /\ [][NextTodoWrite]_vars

(* ------------------------------- C30 --------------------------------- *)
SnapshotsOf(of_session) ==
  SelectSeq(todo_snapshots, LAMBDA row : row.session_id = of_session)

\* C30: after TodoWriteTool.execute(todos) succeeds the session has exactly
\* one snapshot row and its content is todos, whatever the snapshot was
\* before, and the rows of other sessions are as before; the same write
\* executed twice in a row leaves the table as the first left it; the summary
\* has total = len(todos) and completed, in_progress and pending equal to
\* the number of items with that status.
C30_SnapshotReplaced ==
  (turn.pc \in {"once", "twice"} /\ turn.ok) =>
    LET summary == json_loads(turn.result)
    IN /\ Len(SnapshotsOf(session_id)) = 1
       /\ json_loads(SnapshotsOf(session_id)[1].todos_json) = turn.todos
       /\ SelectSeq(todo_snapshots, LAMBDA row : row.session_id # session_id)
            = SelectSeq(turn.before, LAMBDA row : row.session_id # session_id)
       /\ (turn.previous_ok /\ turn.previous_todos = turn.todos) =>
            todo_snapshots = turn.before
       /\ summary.total = Len(turn.todos.list)
       /\ \A status \in {"completed", "in_progress", "pending"} :
            summary[status] =
              Cardinality({ k \in 1..Len(turn.todos.list) :
                              /\ "status" \in DOMAIN turn.todos.list[k]
                              /\ turn.todos.list[k].status = status })

\* a second, successful write of a different list over a snapshot that
\* held two items
C30_Witness ==
  /\ turn.pc = "twice" /\ turn.ok /\ turn.previous_ok
  /\ turn.previous_todos # turn.todos
  /\ Len(turn.previous_todos.list) = 2 /\ Len(turn.todos.list) = 1
  /\ Len(todo_snapshots) = 2

(* ------------------- sandbox file system: SpecSandbox ------------------ *)
\* A filename or path argument is a sequence of characters, a path of the
\* file system a sequence of components, a component a sequence of
\* characters.  "U+00E9" stands for the letter e with an acute accent.
AsciiWordChars == {"a", "e", "p", "t", "k", "_"}

\* what \w matches in a str pattern: the word characters of Unicode
WordChars == AsciiWordChars \cup {"U+00E9"}

\* <base>/<user_id>/<session_id>, the directory of the session
SessionPath == << <<"b">>, <<"1">>, <<"s">> >>

\* a file of the host and a file of another session of the same user
HostFile == << <<"e">>, <<"p">> >>
OtherSessionFile == << <<"b">>, <<"1">>, <<"t">>, <<"k">> >>

\* filenames a caller may pass; <<"a">> stands for index.html
FilenameMenu ==
  { <<"a">>, <<"e">>, <<"a", "\n">>, <<"U+00E9">>, <<>>, <<".", ".">>,
    <<".", ".", "/", "t", "/", "k">>, <<"/", "e", "/", "p">> }

\* settings the deployment may run with: the defaults, and the smallest
\* quotas its integer megabyte fields allow
SandboxSettings ==
  { [max_sandbox_size_mb |-> max_sandbox_size_mb, max_file_size_mb |-> max_file_size_mb],
    [max_sandbox_size_mb |-> 1, max_file_size_mb |-> 1] }

max_file_size(settings) == settings.max_file_size_mb * 1024 * 1024
max_sandbox_size(settings) == settings.max_sandbox_size_mb * 1024 * 1024

\* re.match(r'^[\w\-\.]+$', filename) and filename not in ('.', '..'):
\* $ also matches before a newline that ends the string
_validate_filename(filename) ==
  LET n == Len(filename)
      body == IF n > 1 /\ filename[n] = "\n" THEN SubSeq(filename, 1, n - 1) ELSE filename
  IN /\ body # <<>>
     /\ \A k \in 1..Len(body) : body[k] \in WordChars \cup {"-", "."}
     /\ filename \notin { <<".">>, <<".", ".">> }

RECURSIVE SplitPath(_)
\* the components of a path argument, as the operating system reads it
SplitPath(chars) ==
  IF chars = <<>> THEN <<>>
  ELSE LET slashes == { k \in 1..Len(chars) : chars[k] = "/" }
       IN IF slashes = {} THEN <<chars>>
          ELSE LET k == CHOOSE i \in slashes : \A j \in slashes : i <= j
               IN (IF k = 1 THEN <<>> ELSE << SubSeq(chars, 1, k - 1) >>)
                  \o SplitPath(SubSeq(chars, k + 1, Len(chars)))

RECURSIVE Walk(_, _)
Walk(at, components) ==
  IF components = <<>> THEN at
  ELSE LET c == Head(components)
       IN Walk(IF c = <<".">> THEN at
               ELSE IF c = <<".", ".">>
                 THEN (IF at = <<>> THEN at ELSE SubSeq(at, 1, Len(at) - 1))
               ELSE Append(at, c),
               Tail(components))

\* the file that `directory / argument` names when it is opened: an
\* absolute argument replaces the directory, ".." climbs out of it
Resolve(directory, chars) ==
  Walk(IF chars # <<>> /\ chars[1] = "/" THEN <<>> ELSE directory, SplitPath(chars))

Inside(path) ==
  /\ Len(path) >= Len(SessionPath)
  /\ SubSeq(path, 1, Len(SessionPath)) = SessionPath

RECURSIVE SumOf(_, _)
SumOf(disk, paths) ==
  IF paths = {} THEN 0
  ELSE LET p == CHOOSE q \in paths : TRUE IN disk[p] + SumOf(disk, paths \ {p})

\* SandboxService._get_sandbox_size: the regular files directly in the
\* session directory
_get_sandbox_size(disk) ==
  SumOf(disk, { p \in DOMAIN disk : Inside(p) /\ Len(p) = Len(SessionPath) + 1 })

Touch(path, access) == [path |-> path, access |-> access]

\* SandboxService.read_file
read_file(disk, filename) ==
  IF ~_validate_filename(filename)
    THEN [raised |-> "ValueError", disk |-> disk, touched |-> {}]
  ELSE LET file_path == Resolve(SessionPath, filename)
       IN IF file_path \notin DOMAIN disk
            THEN [raised |-> "FileNotFoundError", disk |-> disk, touched |-> {}]
            ELSE [raised |-> "", disk |-> disk, touched |-> {Touch(file_path, "read")}]

\* SandboxService.delete_file
delete_file(disk, filename) ==
  IF ~_validate_filename(filename)
    THEN [raised |-> "ValueError", disk |-> disk, touched |-> {}]
  ELSE LET file_path == Resolve(SessionPath, filename)
       IN IF file_path \in DOMAIN disk
            THEN [raised |-> "", touched |-> {Touch(file_path, "delete")},
                  disk |-> [p \in DOMAIN disk \ {file_path} |-> disk[p]]]
            ELSE [raised |-> "", disk |-> disk, touched |-> {}]

\* a variant of the checks of write_file without the check of the total
write_file_checks_file_only(disk, settings, filename, content_size) ==
  IF ~_validate_filename(filename) THEN "ValueError: invalid filename"
  ELSE IF content_size > max_file_size(settings) THEN "ValueError: file size"
  ELSE ""

\* SandboxService.write_file up to the point where the file is opened: the
\* exception it raises, "" when it goes on to write
write_file_checks(disk, settings, filename, content_size) ==
  IF ~_validate_filename(filename) THEN "ValueError: invalid filename"
  ELSE IF content_size > max_file_size(settings) THEN "ValueError: file size"
  ELSE LET file_path == Resolve(SessionPath, filename)
           current_size == _get_sandbox_size(disk)
                             - (IF file_path \in DOMAIN disk THEN disk[file_path] ELSE 0)
       IN IF current_size + content_size > max_sandbox_size(settings)
            THEN "ValueError: sandbox size"
            ELSE ""

\* aiofiles.open(file_path, mode='w') and f.write(content)
write_file_writes(disk, filename, content_size) ==
  LET file_path == Resolve(SessionPath, filename)
  IN [p \in DOMAIN disk \cup {file_path} |->
        IF p = file_path THEN content_size ELSE disk[p]]

\* commands the model may pass to the bash tool, after shlex.split
BashMenu ==
  { [base_command |-> "", args |-> <<>>],
    [base_command |-> "curl", args |-> << <<"a">> >>],
    [base_command |-> "ls", args |-> <<>>],
    [base_command |-> "cat", args |-> << <<"a">> >>],
    [base_command |-> "cat", args |-> << <<"/", "e", "/", "p">> >>],
    [base_command |-> "rm", args |-> << <<".", ".", "/", "t", "/", "k">> >>],
    [base_command |-> "cp", args |-> << <<"a">>, <<"/", "e", "/", "a">> >>],
    [base_command |-> "cp", args |-> << <<"a">>, <<"b">> >>] }

ALLOWED_COMMANDS ==
  {"ls", "cat", "head", "tail", "grep", "find", "mkdir", "rm", "mv", "cp", "pwd", "echo"}

\* BashTool.execute: the whitelist looks at parts[0] only, then the command
\* runs with the session directory as its working directory
BashTool_execute(disk, command) ==
  IF command.base_command = ""
    THEN [disk |-> disk, touched |-> {}, result |-> <<"error: empty command">>]
  ELSE IF command.base_command \notin ALLOWED_COMMANDS
    THEN [disk |-> disk, touched |-> {}, result |-> <<"error: command not allowed">>]
  ELSE LET at(k) == Resolve(SessionPath, command.args[k])
           failed == [disk |-> disk, touched |-> {}, result |-> <<"command failed">>]
       IN IF command.base_command = "cat"
            THEN IF at(1) \in DOMAIN disk
                   THEN [disk |-> disk, touched |-> {Touch(at(1), "read")},
                         result |-> <<"content">>]
                   ELSE failed
          ELSE IF command.base_command = "rm"
            THEN IF at(1) \in DOMAIN disk
                   THEN [disk |-> [p \in DOMAIN disk \ {at(1)} |-> disk[p]],
                         touched |-> {Touch(at(1), "delete")},
                         result |-> <<"command succeeded (no output)">>]
                   ELSE failed
          ELSE IF command.base_command = "cp"
            THEN IF at(1) \in DOMAIN disk
                   THEN [disk |-> [p \in DOMAIN disk \cup {at(2)} |->
                                     IF p = at(2) THEN disk[at(1)] ELSE disk[p]],
                         touched |-> {Touch(at(1), "read"), Touch(at(2), "create")},
                         result |-> <<"command succeeded (no output)">>]
                   ELSE failed
          ELSE [disk |-> disk, touched |-> {Touch(SessionPath, "read")},
                result |-> <<"listing">>]

\* CheckTool.execute for one type: _get_file_path joins the filename to the
\* session directory as it is, the checker then reads the file
CheckTool_execute(disk, available, filename) ==
  IF ~available THEN [touched |-> {}, result |-> <<"check tool not installed">>]
  ELSE LET file_path == Resolve(SessionPath, IF filename = <<>> THEN <<"a">> ELSE filename)
       IN IF file_path \notin DOMAIN disk
            THEN [touched |-> {}, result |-> <<"file does not exist">>]
            ELSE [touched |-> {Touch(file_path, "read")}, result |-> <<"check passed">>]

InitSandbox ==
  /\ messages = <<>>
  /\ steps = <<>>
  /\ _event_queues = <<>>
  /\ conns = <<>>
  /\ todo_snapshots = <<>>
  /\ emitted = <<>>
  /\ budget = [work |-> 0, tools |-> 0, received |-> <<>>, clock |-> 0,
               max_iter |-> MaxIter, user_content |-> UserContent,
               settings |-> get_settings]
  /\ turn = [pc |-> "sandbox", ops |-> 0]
  /\ \E sandbox_settings \in SandboxSettings, initialized \in BOOLEAN :
       sandbox = [disk |-> [p \in {HostFile, OtherSessionFile}
                                    \cup (IF initialized THEN {SessionPath \o << <<"a">> >>} ELSE {})
                              |-> 1],
                  pending |-> {},
                  settings |-> sandbox_settings,
                  last |-> [op |-> ""]]

\* one more call may start
MayStart == turn.pc = "sandbox" /\ turn.ops < MaxSandboxOps

Started == turn' = [turn EXCEPT !.ops = @ + 1]

Others == <<messages, steps, _event_queues, conns, emitted, budget, todo_snapshots>>

\* what a call of a tool or of an endpoint leaves behind
Record(op, via, filename, raised, touched, phase) ==
  [op |-> op, via |-> via, filename |-> filename, raised |-> raised,
   tool_raised |-> FALSE, touched |-> touched, phase |-> phase,
   before |-> sandbox.disk]

\* the read tool, and GET /files/{filename}; the tools call read_file,
\* write_file and list_files of the sandbox service with their user_id and
\* session_id
ReadFile ==
  /\ MayStart /\ Started
  /\ \E via \in {"read tool", "api"}, filename \in FilenameMenu :
       LET r == read_file(sandbox.disk, filename)
       IN sandbox' = [sandbox EXCEPT
            !.last = Record("read_file", via, filename, r.raised, r.touched, "returned")]
  /\ UNCHANGED Others

\* DELETE /files/{filename}
DeleteFile ==
  /\ MayStart /\ Started
  /\ \E filename \in FilenameMenu :
       LET r == delete_file(sandbox.disk, filename)
       IN sandbox' = [sandbox EXCEPT
            !.disk = r.disk,
            !.last = Record("delete_file", "api", filename, r.raised, r.touched, "returned")]
  /\ UNCHANGED Others

\* sizes of a content, in bytes of its UTF-8 encoding
ContentSizes(settings) == {1, max_file_size(settings), max_file_size(settings) + 1}

\* the write tool, or POST /files/{filename}, runs write_file up to its
\* first await; the two callers are tasks of one event loop
WriteFileChecks ==
  /\ MayStart /\ Started
  /\ \E via \in {"write tool", "api"}, filename \in FilenameMenu,
        content_size \in ContentSizes(sandbox.settings) :
       /\ \A w \in sandbox.pending : w.via # via
       /\ LET raised == write_file_checks(sandbox.disk, sandbox.settings, filename, content_size)
          IN sandbox' = [sandbox EXCEPT
               !.pending = IF raised = ""
                             THEN @ \cup {[via |-> via, filename |-> filename,
                                           content_size |-> content_size]}
                             ELSE @,
               !.last = Record("write_file", via, filename, raised, {},
                               IF raised = "" THEN "checked" ELSE "rejected")
                        @@ [content_size |-> content_size]]
  /\ UNCHANGED Others

\* the file is opened and written, and write_file returns
WriteFileWrites ==
  /\ turn.pc = "sandbox"
  /\ \E w \in sandbox.pending :
       sandbox' = [sandbox EXCEPT
         !.disk = write_file_writes(@, w.filename, w.content_size),
         !.pending = @ \ {w},
         !.last = Record("write_file", w.via, w.filename, "",
                         {Touch(Resolve(SessionPath, w.filename), "create")}, "written")
                  @@ [content_size |-> w.content_size]]
  /\ UNCHANGED <<turn, messages, steps, _event_queues, conns, emitted, budget, todo_snapshots>>

\* the list tool
ListTool ==
  /\ MayStart /\ Started
  /\ sandbox' = [sandbox EXCEPT
       !.last = Record("list_files", "list tool", <<>>, "", {Touch(SessionPath, "read")}, "returned")]
  /\ UNCHANGED Others

\* the bash tool
BashTool ==
  /\ MayStart /\ Started
  /\ \E command \in BashMenu :
       LET r == BashTool_execute(sandbox.disk, command)
       IN sandbox' = [sandbox EXCEPT
            !.disk = r.disk,
            !.last = Record("bash", "bash tool", <<>>, "", r.touched, "returned")]
  /\ UNCHANGED Others

\* the check tool; whether the checker is installed is up to the host
CheckTool ==
  /\ MayStart /\ Started
  /\ \E available \in BOOLEAN,
        filename \in {<<>>, <<"a">>, <<"/", "e", "/", "p">>, <<".", ".", "/", "t", "/", "k">>} :
       LET r == CheckTool_execute(sandbox.disk, available, filename)
       IN sandbox' = [sandbox EXCEPT
            !.last = Record("check", "check tool", filename, "", r.touched, "returned")]
  /\ UNCHANGED Others

NextSandbox ==
  \/ ReadFile
  \/ DeleteFile
  \/ WriteFileChecks
  \/ WriteFileWrites
  \/ ListTool
  \/ BashTool
  \/ CheckTool

SpecSandbox == InitSandbox /\ [][NextSandbox]_vars

(* ------------------------------- C25 --------------------------------- *)
\* C25: no invocation of a tool available to the model (list, read, write,
\* bash, check), whatever its arguments, creates, reads or deletes a path
\* of the file system outside <base>/<user_id>/<session_id>/.
C25_ToolsStayInSandbox ==
  (sandbox.last.op # "" /\ sandbox.last.via # "api") =>
    \A t \in sandbox.last.touched : Inside(t.path)

(* ------------------------------- C26 --------------------------------- *)
\* the grammar [A-Za-z0-9_.-]+ without "." and ".."
InGrammar(filename) ==
  /\ filename # <<>>
  /\ \A k \in 1..Len(filename) : filename[k] \in AsciiWordChars \cup {"-", "."}
  /\ filename \notin { <<".">>, <<".", ".">> }

\* C26: read_file, write_file and delete_file accept a filename if and only
\* if it is a non-empty string over [A-Za-z0-9_.-] other than "." and "..";
\* for every other filename the operation fails with a validation error and
\* leaves the sandbox unchanged, and the read and write tools return the
\* error as a result string instead of raising.
C26_FilenameGrammar ==
  sandbox.last.op \in {"read_file", "write_file", "delete_file"} =>
    LET last == sandbox.last
        rejected == last.raised \in {"ValueError", "ValueError: invalid filename"}
    IN /\ rejected <=> ~InGrammar(last.filename)
       /\ ~InGrammar(last.filename) =>
            /\ sandbox.disk = last.before
            /\ \A w \in sandbox.pending : w.filename # last.filename
       /\ last.via \in {"read tool", "write tool"} => ~last.tool_raised

(* ------------------------------- C27 --------------------------------- *)
\* the sum of the sizes of the files in the session directory
SessionTotal(disk) == SumOf(disk, { p \in DOMAIN disk : Inside(p) })

\* C27: after every successful write_file the sum of the file sizes in the
\* session directory is at most S_MAX and the written file is at most
\* F_MAX; write_file succeeds exactly when size(new) <= F_MAX and (current
\* total minus the size of the file being overwritten) + size(new) <= S_MAX;
\* a write rejected for either limit leaves every file unchanged and creates
\* nothing.
C27_QuotaKept ==
  (sandbox.last.op = "write_file" /\ _validate_filename(sandbox.last.filename)) =>
    LET last == sandbox.last
        file_path == Resolve(SessionPath, last.filename)
        overwritten == IF file_path \in DOMAIN last.before THEN last.before[file_path] ELSE 0
        fits == /\ last.content_size <= max_file_size(sandbox.settings)
                /\ (SessionTotal(last.before) - overwritten) + last.content_size
                     <= max_sandbox_size(sandbox.settings)
    IN /\ last.phase = "written" =>
            /\ SessionTotal(sandbox.disk) <= max_sandbox_size(sandbox.settings)
            /\ sandbox.disk[file_path] <= max_file_size(sandbox.settings)
       /\ last.phase = "checked" => fits
       /\ last.phase = "rejected" => (~fits /\ sandbox.disk = last.before)

(* ------------------------------- C31 --------------------------------- *)
\* the steps that carry a tool_call_id, in the order of the table
ToolSteps == SelectSeq(steps, LAMBDA st : st.tool_call_id # 0)

ToolMessagesOf(msgs, id) ==
  { k \in 1..Len(msgs) : msgs[k].role = "tool" /\ msgs[k].tool_call_id = id }

\* the positions of the assistant messages of the array that issued call id
IssuersOf(msgs, id) ==
  { k \in 1..Len(msgs) :
      /\ msgs[k].role = "assistant"
      /\ "tool_calls" \in DOMAIN msgs[k]
      /\ \E j \in 1..Len(msgs[k].tool_calls) : msgs[k].tool_calls[j].id = id }

\* C32: at every provider call after the first of a turn, each tool call of
\* an earlier iteration has exactly one tool message with its tool_call_id
\* in the message table, after the assistant row of the turn, and exactly
\* one in the in-memory array, after the assistant message that issued it,
\* and the tool messages are in the order of the calls in both.
C32_ToolMessagesBeforeNextCall ==
  (turn.pc = "streaming" /\ turn.iteration > 1) =>
    LET calls == turn.final_tool_calls
        at(msgs, j) == CHOOSE k \in ToolMessagesOf(msgs, calls[j].id) : TRUE
    IN /\ calls # <<>>
       /\ \A j \in 1..Len(calls) :
            /\ Cardinality(ToolMessagesOf(messages, calls[j].id)) = 1
            /\ Cardinality(ToolMessagesOf(turn.ai_messages, calls[j].id)) = 1
            /\ at(messages, j) > turn.message_id
            /\ \E i \in IssuersOf(turn.ai_messages, calls[j].id) :
                 i < at(turn.ai_messages, j)
       /\ \A i, j \in 1..Len(calls) :
            i < j => /\ at(messages, i) < at(messages, j)
                     /\ at(turn.ai_messages, i) < at(turn.ai_messages, j)

\* the second provider call of a turn whose first iteration had two calls,
\* one that failed and one that completed
C32_Witness ==
  /\ turn.pc = "streaming" /\ turn.iteration = 2
  /\ Len(turn.final_tool_calls) = 2
  /\ \E k \in DOMAIN steps : steps[k].status = "failed" /\ steps[k].tool_call_id # 0
  /\ \E k \in DOMAIN steps : steps[k].status = "tool_completed"

(* ------------------------------- C33 --------------------------------- *)
\* the content chat_with_tools gives when its API call raised
FailedCallContent == chat_with_tools([raised |-> TRUE]).content

RECURSIVE ConcatUpTo(_, _)
\* pick[1] \o ... \o pick[n]
ConcatUpTo(pick, n) == IF n = 0 THEN <<>> ELSE ConcatUpTo(pick, n - 1) \o pick[n]

\* the contents a turn of n iterations may have produced, one per iteration
IterationContents(n) ==
  { pick \in [1..n -> {<<>>, FailedCallContent} \cup { ContentOf(i) : i \in 1..n }] :
      \A i \in 1..n : pick[i] \in {<<>>, FailedCallContent, ContentOf(i)} }

\* C33: the assistant message appended to the in-memory array in iteration
\* i has the content the provider produced in iteration i alone, and the
\* content stored for the assistant row when the turn returns is the
\* concatenation, in iteration order, of the contents of the iterations,
\* each counted once.
C33_AssistantContentPerIteration ==
  /\ turn.pc = "tool" =>
       LET assistants == SelectSeq(turn.ai_messages, IsAssistant)
       IN assistants[Len(assistants)].content = turn.accumulated_response
  /\ Returned =>
       LET n == IterationsOf(turn.message_id)
       IN \E pick \in IterationContents(Cardinality(n)) :
            messages[turn.message_id].content = ConcatUpTo(pick, Cardinality(n))

\* the second part of C33 on its own
C33_StoredContent ==
  Returned =>
    \E pick \in IterationContents(Cardinality(IterationsOf(turn.message_id))) :
      messages[turn.message_id].content =
        ConcatUpTo(pick, Cardinality(IterationsOf(turn.message_id)))

(* ------------------------------- C34 --------------------------------- *)
\* the tool-call deltas of a stream up to its first finish or error
RECURSIVE DeltasBeforeEnd(_)
DeltasBeforeEnd(chunks) ==
  IF chunks = <<>> \/ Head(chunks).kind \in {"finish", "raise"} THEN <<>>
  ELSE (IF Head(chunks).kind = "tool_call" THEN <<Head(chunks)>> ELSE <<>>)
       \o DeltasBeforeEnd(Tail(chunks))

\* the distinct indices of the deltas, in the order of their first arrival
RECURSIVE FirstSeen(_)
FirstSeen(deltas) ==
  IF deltas = <<>> THEN <<>>
  ELSE LET earlier == FirstSeen(SubSeq(deltas, 1, Len(deltas) - 1))
           idx == deltas[Len(deltas)].index
       IN IF \E k \in 1..Len(earlier) : earlier[k] = idx THEN earlier
          ELSE Append(earlier, idx)

\* the argument fragments of a sequence of deltas, joined in order
RECURSIVE JoinArguments(_)
JoinArguments(deltas) ==
  IF deltas = <<>> THEN ""
  ELSE JoinArguments(SubSeq(deltas, 1, Len(deltas) - 1)) \o deltas[Len(deltas)].arguments

\* C34: whatever the interleaving of the tool-call deltas of different
\* indices, the tool_calls list of the tool_calls event has exactly one
\* entry per distinct index seen, each entry has the id and the name of the
\* first delta of its index, and its arguments string is the concatenation,
\* in arrival order, of the fragments of that index and of no other.
C34_IndexedAccumulation ==
  (turn.pc = "consumed" /\ turn.events # <<>>
     /\ turn.events[Len(turn.events)].type = "tool_calls") =>
    LET tool_calls == turn.events[Len(turn.events)].tool_calls
        deltas == DeltasBeforeEnd(turn.chunks)
        seen == FirstSeen(deltas)
    IN /\ Len(tool_calls) = Len(seen)
       /\ \A j \in 1..Len(seen) :
            LET mine == SelectSeq(deltas, LAMBDA d : d.index = seen[j])
            IN /\ tool_calls[j].id = mine[1].id
               /\ tool_calls[j].function.name = mine[1].name
               /\ tool_calls[j].function.arguments = JoinArguments(mine)

\* a stream in which a delta of index 1 arrives between two deltas of index 0
C34_Witness ==
  /\ turn.pc = "consumed" /\ Len(turn.chunks) = 4
  /\ turn.chunks[1].kind = "tool_call" /\ turn.chunks[1].index = 0
  /\ turn.chunks[2].kind = "tool_call" /\ turn.chunks[2].index = 1
  /\ turn.chunks[3].kind = "tool_call" /\ turn.chunks[3].index = 0
  /\ turn.chunks[3].arguments # turn.chunks[1].arguments
  /\ turn.events[1].type = "tool_calls"
  /\ Len(turn.events[1].tool_calls) = 2

(* ------------------------------- C35 --------------------------------- *)
\* the turn was posted and has not ended
TurnInProgress == turn.pc \in {"scheduled", "streaming", "tool"}

\* the turn (the id of its assistant message) that put event e: a step
\* event names it, a done event follows the steps of its turn
ProducerOf(e) ==
  IF IsStepEvent(e) THEN e.data.message_id
  ELSE LET before == { k \in 1..(e.seq - 1) : IsStepEvent(emitted[k]) }
       IN IF before = {} THEN 0
          ELSE emitted[CHOOSE k \in before : \A j \in before : j <= k].data.message_id

\* the number of the first event the running turn put, past the history
\* when it has put none
FirstEventOfTurn ==
  LET mine == { k \in DOMAIN emitted :
                  IsStepEvent(emitted[k]) /\ emitted[k].data.message_id = turn.message_id }
  IN IF mine = {} THEN Len(emitted) + 1
     ELSE CHOOSE k \in mine : \A j \in mine : k <= j

\* a stream that closes while a turn is running is not closed by an event
\* of that turn, and was not connected after that turn put its first event
\* (it then has forwarded events of that turn, which is still running)
C35_Closes ==
  \A c \in DOMAIN conns :
    (conns[c].state = "open" /\ conns'[c].state = "closed" /\ TurnInProgress) =>
      /\ ProducerOf(conns'[c].last) # turn.message_id
      /\ ~(conns[c].last.event \in {"", "sync"}
             /\ conns[c].last.seq >= FirstEventOfTurn)

\* C35: an SSE stream that is connected while a turn of the session is
\* running is not closed before that turn has ended: when a forwarded event
\* closes the stream, the turn has appended its completed step or emitted
\* its error event; also when a tool call fails and the loop goes on, and
\* in a turn that follows an earlier turn of the session.
C35_NotClosedBeforeTurnEnds == [][C35_Closes]_vars

(* ------------------------------- C36 --------------------------------- *)
\* the step in which the running turn ends
TurnEnds == turn.pc # "finished" /\ turn'.pc = "finished"

\* the events on the session's queue that close the stream forwarding them
ClosingEvents(queue) ==
  { k \in DOMAIN queue : queue[k].event \in TerminalEventNames }

\* the step that ends a turn with a stream open leaves a closing event on
\* the queue
C36_EndLeavesClosingEvent ==
  (TurnEnds /\ \E c \in DOMAIN conns : conns[c].state = "open") =>
    ClosingEvents(_event_queues'[session_id]) # {}

\* C36: every SSE stream that is open when a turn ends eventually closes,
\* after a normal end and after the failure path alike.  A stream closes
\* only by forwarding a closing event and an ended turn puts no further
\* event, so a stream open when the turn ends closes only if the queue
\* holds a closing event once the turn has ended.
C36_OpenStreamsClose == [][C36_EndLeavesClosingEvent]_vars

(* ------------------------------- C37 --------------------------------- *)
\* the streams that an event of the ended turn closed
ClosedByTurn ==
  { c \in DOMAIN conns :
      /\ conns[c].state = "closed"
      /\ conns[c].last.seq > 0
      /\ ProducerOf(conns[c].last) = turn.message_id }

\* C37: once a turn has ended and the SSE stream connected for it has
\* closed (no stream is open any more), the session's event queue is empty,
\* so the next connection finds no event of the finished turn.
C37_QuiescentQueueEmpty ==
  (/\ turn.pc = "finished"
   /\ ClosedByTurn # {}
   /\ \A c \in DOMAIN conns : conns[c].state = "closed")
    => get_event_queue(_event_queues, session_id)[session_id] = <<>>

(* ------------------------------- C38 --------------------------------- *)
\* C38: when the done event or the error event of a turn is put on the
\* queue, the assistant row already holds its final content (the
\* accumulated response, or the error body): the content the row held at
\* the moment of the event is the content it holds once the turn has ended.
C38_EventAfterFinalContent ==
  turn.pc = "finished" =>
    turn.row_at_event = messages[turn.message_id].content

(* ------------------------------- C39 --------------------------------- *)
\* the turns of the session on their own: POST /messages and the steps of
\* the background task
NextTurns ==
  \/ create_message
  \/ AgentTask

\* the provider and the tools return and the event loop runs the background
\* task: weak fairness of the task's steps.  A step of the task is possible
\* exactly while a turn is in progress (run_agent, StreamDone and
\* ToolReturns have no other guard), so WF_vars(AgentTask) reads: the turn
\* is over again and again, or the task steps again and again
TaskFairness == []<>(~TurnInProgress) \/ []<><<AgentTask>>_vars

SpecTurns == Init /\ [][NextTurns]_vars /\ TaskFairness

\* the ids of the assistant messages: one per turn
TurnIds == { messages[k].id : k \in { k \in DOMAIN messages : IsAssistant(messages[k]) } }

\* the numbers of the events turn m put
EventsOfTurn(m) == { k \in DOMAIN emitted : ProducerOf(emitted[k]) = m }

\* the numbers of the turn-level terminal events turn m put
TerminalsOfTurn(m) ==
  { k \in EventsOfTurn(m) : emitted[k].event \in {"done", "error"} }

TurnEnded(m) == m # turn.message_id \/ turn.pc = "finished"

C39_OneTerminalPerTurn ==
  \A m \in TurnIds :
    /\ Cardinality(TerminalsOfTurn(m)) <= 1
    /\ \A k \in TerminalsOfTurn(m) : \A j \in EventsOfTurn(m) : j <= k
    /\ TurnEnded(m) <=> TerminalsOfTurn(m) # {}

\* C39: each turn puts exactly one turn-level terminal event on the queue,
\* done or error and never both, and it is the last event the turn puts;
\* when the provider and every tool call return, every started turn comes
\* to put it.
C39_TerminalEventOncePerTurn ==
  /\ []C39_OneTerminalPerTurn
  /\ (TurnInProgress ~> turn.pc = "finished")

\* both turns have ended, one with done and one with error
C39_Witness ==
  /\ turn.pc = "finished"
  /\ Cardinality(TurnIds) = 2
  /\ { emitted[k].event : k \in UNION { TerminalsOfTurn(m) : m \in TurnIds } }
       = {"done", "error"}

(* ------------------------------- C40 --------------------------------- *)
\* C40: the quota holds in every reachable state of the sandbox: the files
\* of the session directory sum to at most S_MAX, whatever the interleaving
\* of the write_file calls in flight on the session and after the bash
\* tool's file-creating commands.
C40_QuotaInvariant ==
  SessionTotal(sandbox.disk) <= max_sandbox_size(sandbox.settings)
====
